---- MODULE Spec2Model ----
(***************************************************************************)
(* Luminosity decade generator (scripts/complete_decade_generator.py):     *)
(* the student, guardian and teacher registries, the curriculum manager,   *)
(* the per-year derivation of the tables and the year loop that drives     *)
(* them.                                                                   *)
(*                                                                         *)
(* Random draws of the program (random.random, random.choice,              *)
(* random.sample, random.randint) are nondeterministic choices.  Names,    *)
(* birth dates and contact data never influence control flow and are left  *)
(* out of the records.  A family_id "FAM<n>" is modelled by the number n.  *)
(* A key of the student_guardians dict is <<student_id, 0>> for the int    *)
(* key student_id and <<student_id, i>> for the string key                 *)
(* "<student_id>_<i>"; the dict is a sequence of rows in insertion order.  *)
(* A turnover_rate is modelled in percent.  datetime.now().year is the     *)
(* variable now.                                                           *)
(*                                                                         *)
(* The later sections follow the files: the academic tables of the year    *)
(* directories (terms, classes, assignments, grades) as the generator      *)
(* writes them, as luminosity_patch.py and grade_distribution_hotfix.py    *)
(* rewrite them and as decade_uploader.py combines them; the attendance    *)
(* statuses of a student; the school-day calendar of _get_school_days;     *)
(* and a sample of 10,000 grades of _generate_realistic_grade.  A score    *)
(* percentage is a whole number of percent, in the sample a number of      *)
(* hundredths of a percent; round is half-to-even.                         *)
(***************************************************************************)
EXTENDS Integers, Sequences, FiniteSets, TLC

VARIABLES
    baseline,              \* students_df handed to load_baseline_students
    active_students,       \* StudentRegistry.active_students: id -> student
    graduated_students,    \* keys of StudentRegistry.graduated_students
    transferred_students,  \* keys of StudentRegistry.transferred_students
    student_id_counter,    \* StudentRegistry.student_id_counter
    family_log,            \* history: id -> family_id and branch of every student registered
    guardians,             \* keys of GuardianRegistry.guardians
    student_guardians,     \* GuardianRegistry.student_guardians (rows, insertion order)
    guardian_id_counter,   \* GuardianRegistry.guardian_id_counter
    transferred_guardians, \* keys of GuardianRegistry.transferred_guardians
    linked,                \* history: <<student_id, guardian_id>> of every row ever stored
    year,                  \* loop variable of generate_decade
    pc,                    \* position inside generate_school_year / generate_decade
    kinder_count,          \* config.new_kindergarten_count passed for this year
    graduated,             \* return value of advance_grade_levels (ids)
    new_k,                 \* return value of enroll_new_kindergarteners (ids)
    transfers_in,          \* return value of process_transfers (ids, in order)
    transfers_out,         \* return value of process_transfers (ids, in order)
    year_data,             \* the tables of the year being generated
    disk,                  \* students.csv of every year directory written so far
    summaries,             \* year_summary.json of every year directory written so far
    transfer_call,         \* history: arguments of the last process_transfers call
    active_teachers,       \* TeacherRegistry.active_teachers: id -> teacher
    retired_teachers,      \* keys of TeacherRegistry.retired_teachers
    former_teachers,       \* keys of TeacherRegistry.former_teachers
    teacher_id_counter,    \* TeacherRegistry.teacher_id_counter
    teacher_changes,       \* return value of process_annual_changes
    annual_call,           \* history: arguments of the last process_annual_changes call
    active_subjects,       \* CurriculumManager.active_subjects: id -> subject
    subject_id_counter,    \* CurriculumManager.subject_id_counter
    now,                   \* datetime.now().year: the wall clock of the run
    decade_dir,            \* year -> terms, classes, assignments, grades csv of its directory
    combined_data,         \* DecadeDataCombiner.combined_data: table name -> rows
    current_date,          \* loop variable of _get_school_days
    school_days_list,      \* school_days being built by _get_school_days
    attendance,            \* rows _generate_attendance made for one student
    sample                 \* tally of a sample of generated grades

vars == <<baseline, active_students, graduated_students, transferred_students,
          student_id_counter, family_log, guardians, student_guardians, guardian_id_counter,
          transferred_guardians, linked, year, pc, kinder_count, graduated,
          new_k, transfers_in, transfers_out, year_data, disk, summaries,
          transfer_call, active_teachers, retired_teachers, former_teachers,
          teacher_id_counter, teacher_changes, annual_call, active_subjects,
          subject_id_counter, now, decade_dir, combined_data, current_date,
          school_days_list, attendance, sample>>

studentVars == <<active_students, graduated_students, transferred_students,
                 student_id_counter, family_log>>

guardianVars == <<guardians, student_guardians, guardian_id_counter,
                  transferred_guardians, linked>>

returnVars == <<graduated, new_k, transfers_in, transfers_out, transfer_call>>

teacherVars == <<active_teachers, retired_teachers, former_teachers,
                 teacher_id_counter>>

teacherReturnVars == <<teacher_changes, annual_call>>

curriculumVars == <<active_subjects, subject_id_counter>>

staffVars == <<teacherVars, teacherReturnVars, curriculumVars, now>>

filesVars == <<decade_dir, combined_data>>

calendarVars == <<current_date, school_days_list, attendance>>

scriptVars == <<filesVars, calendarVars, sample>>

----------------------------------------------------------------------------
(* Bounds of the model *)

MaxBaseline == 2        \* rows of the baseline students.csv
MaxExtra == 1           \* rows beyond one per grade in the scenario baseline
MaxYears == 2           \* years generated: StartYear .. StartYear + MaxYears - 1
MaxKinder == 2          \* new_kindergarten_count of a year (42..52 in the configs)
MaxTransferIn == 1      \* transfer_in_count (random.randint(3, 8) in the program)
MaxTransferOut == 2     \* transfer_out_count (random.randint(2, 7) in the program)
MaxNewStudents == 2     \* students created after the baseline load
MaxAssignments == 1     \* assignments per class (random.randint(65, 75) in the program)
SchoolDayCount == 1     \* length of the school-day list of a year
MaxNonParentTypes == 1  \* entries of guardian_types drawn from (6 in the program)
MaxTeachers == 2        \* rows of the baseline teachers.csv
MaxNewTeachers == 2     \* teachers hired after the baseline load
TargetTeacherCount == 1 \* target_teacher_count of generate_school_year (62 in the program)
MaxSubjectId == 5       \* highest subject_id the curriculum may reach
ClockStart == 2025      \* year the wall clock shows when the run starts
MaxClockTicks == 1      \* new-year changes of the wall clock during a run

(* Program constants *)

BaselineYear == 2015
StartYear == 2016
TerminalGrade == 13
KindergartenGrade == 1
MaxTransferGrade == 12
FamilyDivisor == 3
StudentsPerSection == 25
DepartmentCount == 9
RetirementExperience == 25
MaxBaselineExperience == 20
MaxHireExperience == 5

EndYear == StartYear + MaxYears - 1

GradeLevels == 1..TerminalGrade

(* guardian_types of the non-parent branch: the list of the program runs  *)
(* from 5 to 10, the model draws from its first MaxNonParentTypes entries  *)
NonParentGuardianTypes == 5..(5 + MaxNonParentTypes - 1)

----------------------------------------------------------------------------
(* Helpers *)

Min(a, b) == IF a <= b THEN a ELSE b

Max(a, b) == IF a >= b THEN a ELSE b

Largest(S) == CHOOSE m \in S : \A x \in S : x <= m

RECURSIVE SortedSeq(_)
SortedSeq(S) ==
    IF S = {} THEN <<>>
    ELSE LET m == CHOOSE x \in S : \A y \in S : x <= y
         IN <<m>> \o SortedSeq(S \ {m})

(* Sequences of n distinct elements of S: the results of random.sample(S, n) *)
RECURSIVE Samples(_, _)
Samples(S, n) ==
    IF n = 0 THEN {<<>>}
    ELSE UNION {{<<x>> \o rest : rest \in Samples(S \ {x}, n - 1)} : x \in S}

(* family_id minted from an id: f"FAM{id//3}" *)
FamilyOf(id) == id \div FamilyDivisor

Student(id, grade, fam) ==
    [student_id |-> id, grade_level_id |-> grade, family_id |-> fam]

(* dict operations on a sequence of rows carrying their key *)
HasKey(d, k) == \E i \in 1..Len(d) : d[i].key = k

DictSet(d, k, row) ==
    IF HasKey(d, k)
    THEN [i \in 1..Len(d) |-> IF d[i].key = k THEN row ELSE d[i]]
    ELSE Append(d, row)

DictDel(d, k) == SelectSeq(d, LAMBDA r : r.key # k)

----------------------------------------------------------------------------
(* StudentRegistry *)

StudentReg ==
    [active |-> active_students, graduated |-> graduated_students,
     transferred |-> transferred_students, counter |-> student_id_counter,
     log |-> family_log]

(* The registry after load_baseline_students(df); df is id -> grade_level_id *)
LoadBaselineStudents(df) ==
    [active |-> [s \in DOMAIN df |-> Student(s, df[s], FamilyOf(s))],
     graduated |-> {},
     transferred |-> {},
     counter |-> IF DOMAIN df = {} THEN 1
                 ELSE Max(1, (CHOOSE m \in DOMAIN df : \A x \in DOMAIN df : x <= m) + 1),
     log |-> [s \in DOMAIN df |-> [family_id |-> FamilyOf(s), sibling |-> FALSE]]]

(* ids moved to graduated_students by advance_grade_levels *)
Graduating(SR) ==
    {s \in DOMAIN SR.active : SR.active[s].grade_level_id >= TerminalGrade}

(* advance_grade_levels without the graduation branch *)
AdvanceGradeLevelsNoGraduation(SR) ==
    [SR EXCEPT !.active = [s \in DOMAIN SR.active |->
                             [SR.active[s] EXCEPT !.grade_level_id = @ + 1]]]

(* advance_grade_levels without del self.active_students[student_id] *)
AdvanceGradeLevelsKeepActive(SR) ==
    [SR EXCEPT
        !.graduated = @ \cup Graduating(SR),
        !.active = [s \in DOMAIN SR.active |->
                      IF s \in Graduating(SR) THEN SR.active[s]
                      ELSE [SR.active[s] EXCEPT !.grade_level_id = @ + 1]]]

(* advance_grade_levels with the test current_grade > 13 *)
AdvanceGradeLevelsStrict(SR) ==
    LET grads == {s \in DOMAIN SR.active :
                     SR.active[s].grade_level_id > TerminalGrade}
    IN [SR EXCEPT
          !.graduated = @ \cup grads,
          !.active = [s \in DOMAIN SR.active \ grads |->
                        [SR.active[s] EXCEPT !.grade_level_id = @ + 1]]]

(* advance_grade_levels(year) *)
AdvanceGradeLevels(SR) ==
    [SR EXCEPT
        !.graduated = @ \cup Graduating(SR),
        !.active = [s \in DOMAIN SR.active \ Graduating(SR) |->
                      [SR.active[s] EXCEPT !.grade_level_id = @ + 1]]]

(* The family_id a kindergartener gets and the branch that set it: a      *)
(* sibling's (random.choice over the active students' family_ids) or the   *)
(* one minted from the counter                                             *)
KinderFamilies(SR) ==
    {[family_id |-> SR.active[s].family_id, sibling |-> TRUE] :
        s \in DOMAIN SR.active}
    \cup {[family_id |-> FamilyOf(SR.counter), sibling |-> FALSE]}

(* self.active_students[self.student_id_counter] = student; counter += 1 *)
AddStudent(SR, grade, fam) ==
    [SR EXCEPT
        !.active = [s \in DOMAIN SR.active \cup {SR.counter} |->
                      IF s = SR.counter THEN Student(SR.counter, grade, fam)
                      ELSE SR.active[s]],
        !.counter = @ + 1,
        !.log = [s \in DOMAIN SR.log \cup {SR.counter} |->
                   IF s = SR.counter
                   THEN [family_id |-> fam, sibling |-> FALSE]
                   ELSE SR.log[s]]]

(* One pass of the loop of enroll_new_kindergarteners *)
AddKindergartener(SR, choice) ==
    [AddStudent(SR, KindergartenGrade, choice.family_id) EXCEPT
        !.log[SR.counter].sibling = choice.sibling]

(* enroll_new_kindergarteners with a loop one pass short *)
RECURSIVE EnrollOneFewer(_, _)
EnrollOneFewer(SR, count) ==
    IF count <= 1 THEN {SR}
    ELSE UNION {EnrollOneFewer(AddKindergartener(SR, choice), count - 1) :
                   choice \in KinderFamilies(SR)}

(* The registries enroll_new_kindergarteners(year, count) can leave *)
RECURSIVE EnrollNewKindergarteners(_, _)
EnrollNewKindergarteners(SR, count) ==
    IF count <= 0 THEN {SR}
    ELSE UNION {EnrollNewKindergarteners(AddKindergartener(SR, choice),
                                         count - 1) :
                   choice \in KinderFamilies(SR)}

----------------------------------------------------------------------------
(* GuardianRegistry *)

GuardianReg ==
    [guardians |-> guardians, student_guardians |-> student_guardians,
     counter |-> guardian_id_counter,
     transferred_guardians |-> transferred_guardians]

Relationship(k, sid, gid, type, fam) ==
    [key |-> k, student_id |-> sid, guardian_id |-> gid,
     guardian_type_id |-> type, family_id |-> fam]

IntKey(sid) == <<sid, 0>>

(* Rows of the relationship table that name the student *)
RowsOfStudent(sg, sid) == SelectSeq(sg, LAMBDA r : r.student_id = sid)

(* One pass of the loop of remove_student_guardians over a relationship *)
RemoveRelationship(G, sid, relationship) ==
    LET gid == relationship.guardian_id
        other_students ==
            SelectSeq(G.student_guardians,
                      LAMBDA r : r.guardian_id = gid /\ r.student_id # sid)
        G1 == IF other_students = <<>> /\ gid \in G.guardians
              THEN [G EXCEPT !.guardians = @ \ {gid},
                             !.transferred_guardians = @ \cup {gid}]
              ELSE G
    IN IF HasKey(G1.student_guardians, IntKey(sid))
       THEN [G1 EXCEPT !.student_guardians = DictDel(@, IntKey(sid))]
       ELSE G1

RECURSIVE RemoveRelationships(_, _, _)
RemoveRelationships(G, sid, relationships) ==
    IF relationships = <<>> THEN G
    ELSE RemoveRelationships(RemoveRelationship(G, sid, Head(relationships)),
                             sid, Tail(relationships))

(* remove_student_guardians(student_id) *)
RemoveStudentGuardians(G, sid) ==
    RemoveRelationships(G, sid, RowsOfStudent(G.student_guardians, sid))

(* The sibling branch: one row per existing family row, all stored under *)
(* the key student_id *)
RECURSIVE ReuseFamilyGuardians(_, _, _)
ReuseFamilyGuardians(G, student, existing) ==
    IF existing = <<>> THEN G
    ELSE LET sid == student.student_id
             new_relationship ==
                 Relationship(IntKey(sid), sid, Head(existing).guardian_id,
                              Head(existing).guardian_type_id, student.family_id)
         IN ReuseFamilyGuardians(
                [G EXCEPT !.student_guardians =
                              DictSet(@, IntKey(sid), new_relationship)],
                student, Tail(existing))

(* A new guardian with the next id and its relationship stored under key k *)
AddGuardian(G, student, k, type) ==
    [G EXCEPT
        !.guardians = @ \cup {G.counter},
        !.student_guardians =
            DictSet(@, k, Relationship(k, student.student_id, G.counter, type,
                                       student.family_id)),
        !.counter = @ + 1]

TwoParentFamily(G, student) ==
    AddGuardian(AddGuardian(G, student, <<student.student_id, 1>>, 1),
                student, <<student.student_id, 2>>, 2)

SingleParentFamily(G, student, type) ==
    AddGuardian(G, student, IntKey(student.student_id), type)

(* The loop body with a sibling branch that stores no relationship *)
GuardiansForStudentNoSiblingRow(G, student) ==
    LET sid == student.student_id
        existing_family_guardians ==
            SelectSeq(G.student_guardians,
                      LAMBDA r : r.family_id = student.family_id)
    IN IF HasKey(G.student_guardians, IntKey(sid)) THEN {G}
       ELSE IF existing_family_guardians # <<>> THEN {G}
       ELSE {TwoParentFamily(G, student)}
            \cup {SingleParentFamily(G, student, 1)}
            \cup {SingleParentFamily(G, student, 2)}
            \cup {SingleParentFamily(G, student, t) : t \in NonParentGuardianTypes}

(* One pass of the loop of generate_guardians_for_students: the registries *)
(* the draws of family structure can leave *)
GuardiansForStudent(G, student) ==
    LET sid == student.student_id
        existing_family_guardians ==
            SelectSeq(G.student_guardians,
                      LAMBDA r : r.family_id = student.family_id)
    IN IF HasKey(G.student_guardians, IntKey(sid)) THEN {G}
       ELSE IF existing_family_guardians # <<>>
            THEN {ReuseFamilyGuardians(G, student, existing_family_guardians)}
       ELSE {TwoParentFamily(G, student)}
            \cup {SingleParentFamily(G, student, 1)}
            \cup {SingleParentFamily(G, student, 2)}
            \cup {SingleParentFamily(G, student, t) : t \in NonParentGuardianTypes}

(* generate_guardians_for_students(students) *)
RECURSIVE GenerateGuardiansForStudents(_, _)
GenerateGuardiansForStudents(G, students) ==
    IF students = <<>> THEN {G}
    ELSE UNION {GenerateGuardiansForStudents(G1, Tail(students)) :
                   G1 \in GuardiansForStudent(G, Head(students))}

----------------------------------------------------------------------------
(* StudentRegistry.process_transfers *)

(* One pass of the transfer-out loop *)
TransferOut(st, sid) ==
    [st EXCEPT
        !.SR.transferred = @ \cup {sid},
        !.SR.active = [s \in DOMAIN st.SR.active \ {sid} |-> st.SR.active[s]],
        !.GR = RemoveStudentGuardians(st.GR, sid),
        !.outs = Append(@, sid)]

RECURSIVE TransferOutAll(_, _)
TransferOutAll(st, ids) ==
    IF ids = <<>> THEN st
    ELSE TransferOutAll(TransferOut(st, Head(ids)), Tail(ids))

(* random.randint(1, 14) *)
TransferGradesWide == 1..(TerminalGrade + 1)

(* grade_level = random.randint(1, 12) *)
TransferGrades == 1..MaxTransferGrade

(* The transfer-in loop: the states count more passes can leave *)
RECURSIVE TransferInAll(_, _)
TransferInAll(st, count) ==
    IF count <= 0 THEN {st}
    ELSE UNION {
        LET id == st.SR.counter
            student == Student(id, grade, FamilyOf(id))
            SR1 == AddStudent(st.SR, grade, FamilyOf(id))
        IN UNION {TransferInAll([st EXCEPT !.SR = SR1, !.GR = G1,
                                           !.ins = Append(@, id)],
                                count - 1) :
                     G1 \in GenerateGuardiansForStudents(st.GR, <<student>>)}
        : grade \in TransferGrades}

(* process_transfers with random.sample asked for transfer_out_count ids *)
ProcessTransfersUnclamped(SR, G, transfer_in_count, transfer_out_count) ==
    LET st0 == [SR |-> SR, GR |-> G, ins |-> <<>>, outs |-> <<>>]
        candidates == DOMAIN SR.active
        afterOut ==
            IF transfer_out_count > 0
            THEN {TransferOutAll(st0, ids) :
                     ids \in Samples(candidates, transfer_out_count)}
            ELSE {st0}
    IN UNION {TransferInAll(st, transfer_in_count) : st \in afterOut}

(* process_transfers(year, transfer_in_count, transfer_out_count, guardian_registry) *)
ProcessTransfers(SR, G, transfer_in_count, transfer_out_count) ==
    LET st0 == [SR |-> SR, GR |-> G, ins |-> <<>>, outs |-> <<>>]
        candidates == DOMAIN SR.active
        afterOut ==
            IF transfer_out_count > 0
            THEN {TransferOutAll(st0, ids) :
                     ids \in Samples(candidates,
                                     Min(transfer_out_count, Cardinality(candidates)))}
            ELSE {st0}
    IN UNION {TransferInAll(st, transfer_in_count) : st \in afterOut}

----------------------------------------------------------------------------
(* TeacherRegistry *)

TeacherReg ==
    [active |-> active_teachers, retired |-> retired_teachers,
     former |-> former_teachers, counter |-> teacher_id_counter]

Teacher(id, dept, exp) ==
    [teacher_id |-> id, department_id |-> dept, years_experience |-> exp]

(* department_id values of the departments table *)
Departments == 1..DepartmentCount

(* random.randint(1, 20) at the baseline load: the model draws the two ends *)
BaselineExperiences == {1, MaxBaselineExperience}

(* random.randint(0, 5) at a hire: the model draws the two ends *)
HireExperiences == {0, MaxHireExperience}

(* The registries load_baseline_teachers(df) can leave; df is             *)
(* teacher_id -> department_id and years_experience is drawn per row       *)
LoadBaselineTeachers(df) ==
    {[active |-> [t \in DOMAIN df |-> Teacher(t, df[t], exp[t])],
      retired |-> {},
      former |-> {},
      counter |-> IF DOMAIN df = {} THEN 1
                  ELSE Max(1, Largest(DOMAIN df) + 1)] :
        exp \in [DOMAIN df -> BaselineExperiences]}

(* int(current_count * turnover_rate); turnover_rate is in percent *)
ExpectedDepartures(current_count, turnover_rate) ==
    (current_count * turnover_rate) \div 100

(* list.sort(key=years_experience, reverse=True): stable, ties keep the   *)
(* dict order, which is the order of the ids                               *)
RECURSIVE SortByExperience(_, _)
SortByExperience(active, ids) ==
    IF ids = {} THEN <<>>
    ELSE LET first == CHOOSE t \in ids : \A u \in ids :
                 \/ active[t].years_experience > active[u].years_experience
                 \/ /\ active[t].years_experience = active[u].years_experience
                    /\ t <= u
         IN <<active[first]>> \o SortByExperience(active, ids \ {first})

(* departure_candidates sorted with the least experienced first *)
DepartureCandidatesAscending(TR) ==
    LET sorted == SortByExperience(TR.active, DOMAIN TR.active)
    IN [i \in 1..Len(sorted) |-> sorted[Len(sorted) + 1 - i]]

(* departure_candidates after the sort *)
DepartureCandidates(TR) == SortByExperience(TR.active, DOMAIN TR.active)

(* One pass of the departure loop: a retirement or a resignation *)
Depart(st, teacher) ==
    LET id == teacher.teacher_id
        gone == [st EXCEPT !.TR.active =
                    [t \in DOMAIN st.TR.active \ {id} |-> st.TR.active[t]]]
        retirement == [gone EXCEPT !.retirements = Append(@, teacher),
                                   !.TR.retired = @ \cup {id}]
        resignation == [gone EXCEPT !.resignations = Append(@, teacher),
                                    !.TR.former = @ \cup {id}]
    IN IF teacher.years_experience >= RetirementExperience
       THEN {retirement}
       ELSE {retirement, resignation}

RECURSIVE DepartAll(_, _)
DepartAll(st, teachers) ==
    IF teachers = <<>> THEN {st}
    ELSE UNION {DepartAll(st1, Tail(teachers)) :
                   st1 \in Depart(st, Head(teachers))}

(* _assess_department_needs with a range that runs one id too far *)
DepartmentNeedsWide(TR) ==
    [dept_id \in 1..(DepartmentCount + 1) |-> DepartmentCount]

(* _assess_department_needs, every weight times 9 to stay in the integers: *)
(* max(1, total / 9 - count) becomes max(9, total - 9 * count)             *)
DepartmentNeeds(TR) ==
    LET total_teachers == Cardinality(DOMAIN TR.active)
        current_count(d) ==
            Cardinality({t \in DOMAIN TR.active : TR.active[t].department_id = d})
    IN [dept_id \in 1..DepartmentCount |->
          Max(DepartmentCount,
              total_teachers - DepartmentCount * current_count(dept_id))]

(* max(0, new_hire_count) of a hiring loop that stops one teacher short *)
NewHireCountShort(TR, target_teacher_count) ==
    Max(0, target_teacher_count - Cardinality(DOMAIN TR.active) - 1)

(* max(0, new_hire_count) *)
NewHireCount(TR, target_teacher_count) ==
    Max(0, target_teacher_count - Cardinality(DOMAIN TR.active))

(* One pass of the hiring loop *)
Hire(st, department_id, years_experience) ==
    LET id == st.TR.counter
    IN [st EXCEPT
          !.TR.active = [t \in DOMAIN st.TR.active \cup {id} |->
                           IF t = id
                           THEN Teacher(id, department_id, years_experience)
                           ELSE st.TR.active[t]],
          !.TR.counter = @ + 1,
          !.new_hires = Append(@, id)]

(* random.choices(keys, weights) draws a key of positive weight: the model *)
(* draws the first and the last of them                                    *)
HireDepartments(department_needs) ==
    LET drawable == {d \in DOMAIN department_needs : department_needs[d] > 0}
    IN {d \in drawable : \/ \A x \in drawable : d <= x
                         \/ \A x \in drawable : d >= x}

RECURSIVE HireAll(_, _, _)
HireAll(st, department_needs, count) ==
    IF count <= 0 THEN {st}
    ELSE UNION {HireAll(Hire(st, d, e), department_needs, count - 1) :
                   d \in HireDepartments(department_needs),
                   e \in HireExperiences}

(* teacher["years_experience"] += 1 for every active teacher *)
AgeTeachers(TR) ==
    [TR EXCEPT !.active = [t \in DOMAIN TR.active |->
                             [TR.active[t] EXCEPT !.years_experience = @ + 1]]]

(* process_annual_changes(year, target_teacher_count, turnover_rate): the  *)
(* registries and return values the draws can leave.  retirements and      *)
(* resignations hold the departed teachers as they left, new_hires the ids *)
(* of the hired teachers, whose records are the aged ones of the registry  *)
ProcessAnnualChanges(TR, target_teacher_count, turnover_rate) ==
    LET st0 == [TR |-> TR, retirements |-> <<>>, resignations |-> <<>>,
                new_hires |-> <<>>]
        departure_candidates == DepartureCandidates(TR)
        expected_departures ==
            ExpectedDepartures(Cardinality(DOMAIN TR.active), turnover_rate)
        leaving == SubSeq(departure_candidates, 1,
                          Min(expected_departures, Len(departure_candidates)))
    IN UNION {
         {[st2 EXCEPT !.TR = AgeTeachers(st2.TR)] :
             st2 \in HireAll(st1, DepartmentNeeds(st1.TR),
                             NewHireCount(st1.TR, target_teacher_count))}
         : st1 \in DepartAll(st0, leaving)}

----------------------------------------------------------------------------
(* CurriculumManager *)

CurriculumMgr == [active |-> active_subjects, counter |-> subject_id_counter]

Subject(id, name, dept, introduced, core) ==
    [subject_id |-> id, name |-> name, department_id |-> dept,
     introduced_year |-> introduced, is_core |-> core]

CoreSubjectNames == {"Mathematics", "English", "Science", "Social Studies"}

(* load_baseline_subjects(df); df is subject_id -> [name, department_id] *)
LoadBaselineSubjects(df) ==
    [active |-> [i \in DOMAIN df |->
                   Subject(i, df[i].name, df[i].department_id, BaselineYear,
                           df[i].name \in CoreSubjectNames)],
     counter |-> IF DOMAIN df = {} THEN 1 ELSE Max(1, Largest(DOMAIN df) + 1)]

(* _add_subject(name, department_id, reason) when datetime.now().year is clock *)
AddSubject(CM, name, department_id, clock) ==
    [CM EXCEPT
        !.active = [i \in DOMAIN CM.active \cup {CM.counter} |->
                      IF i = CM.counter
                      THEN Subject(CM.counter, name, department_id, clock, FALSE)
                      ELSE CM.active[i]],
        !.counter = @ + 1]

(* _modify_subject that retires the old row and adds the new name *)
ModifySubjectReplace(CM, old_name, new_name) ==
    LET hits == {i \in DOMAIN CM.active : CM.active[i].name = old_name}
    IN IF hits = {} THEN CM
       ELSE LET old == CHOOSE i \in hits : \A j \in hits : i <= j
                kept == [CM EXCEPT !.active =
                            [i \in DOMAIN CM.active \ {old} |-> CM.active[i]]]
            IN AddSubject(kept, new_name, CM.active[old].department_id,
                          CM.active[old].introduced_year)

(* _modify_subject(old_name, new_name, reason): renames the first subject  *)
(* of that name in dict order                                              *)
ModifySubject(CM, old_name, new_name) ==
    LET hits == {i \in DOMAIN CM.active : CM.active[i].name = old_name}
    IN IF hits = {} THEN CM
       ELSE LET old == CHOOSE i \in hits : \A j \in hits : i <= j
            IN [CM EXCEPT !.active[old].name = new_name]

(* evolve_curriculum(year) when datetime.now().year is clock *)
EvolveCurriculum(CM, y, clock) ==
    IF y = 2016
    THEN ModifySubject(AddSubject(CM, "Digital Literacy", 7, clock),
                       "Old World History", "World History")
    ELSE IF y = 2017
    THEN AddSubject(AddSubject(CM, "AP Calculus", 1, clock),
                    "Environmental Science", 2, clock)
    ELSE IF y = 2019
    THEN AddSubject(AddSubject(CM, "Robotics", 7, clock),
                    "Mandarin Chinese", 8, clock)
    ELSE IF y = 2022
    THEN AddSubject(AddSubject(CM, "Cybersecurity", 7, clock),
                    "Data Science", 1, clock)
    ELSE IF y = 2023
    THEN AddSubject(AddSubject(CM, "International Baccalaureate", 9, clock),
                    "Dual Enrollment Math", 1, clock)
    ELSE CM

----------------------------------------------------------------------------
(* The tables generate_school_year derives from the registries *)

RECURSIVE Concat(_)
Concat(ss) == IF ss = <<>> THEN <<>> ELSE Head(ss) \o Concat(Tail(ss))

(* active_students.values() in dict order: baseline rows, then ids as minted *)
ActiveList(SR) ==
    LET ids == SortedSeq(DOMAIN SR.active)
    IN [i \in 1..Len(ids) |-> SR.active[ids[i]]]

(* _create_students_dataframe *)
CreateStudentsDataframe(SR) ==
    LET students == ActiveList(SR)
    IN [i \in 1..Len(students) |->
          [student_id |-> students[i].student_id,
           grade_level_id |-> students[i].grade_level_id]]

(* The subject list _generate_classes offers to a grade level *)
SubjectsOfGrade(grade_level) ==
    IF grade_level <= 6
    THEN <<"Homeroom", "Mathematics", "Reading", "Science", "Social Studies">>
    ELSE IF grade_level <= 9
    THEN <<"Mathematics", "English Language Arts", "Science", "Social Studies",
           "Art", "Physical Education", "Technology">>
    ELSE IF grade_level = 10
    THEN <<"Algebra I", "Biology", "Physical Education", "English", "Geography",
           "Spanish I", "Computer Science">>
    ELSE IF grade_level = 11
    THEN <<"Geometry", "Life Science", "Physical Education",
           "American Literature", "Old World History", "Spanish II",
           "Visual Arts">>
    ELSE IF grade_level = 12
    THEN <<"Algebra II", "Chemistry", "Physical Education",
           "English Literature", "New World History", "Leadership",
           "Music Performance">>
    ELSE <<"Calculus", "Psychology", "Physical Education", "World Literature",
           "Government/Economics">>

(* keys of grade_distribution in insertion order *)
RECURSIVE GradeOrder(_, _)
GradeOrder(students, seen) ==
    IF students = <<>> THEN <<>>
    ELSE LET g == Head(students).grade_level_id
         IN IF g \in seen THEN GradeOrder(Tail(students), seen)
            ELSE <<g>> \o GradeOrder(Tail(students), seen \cup {g})

SectionsNeeded(student_count) == Max(1, student_count \div StudentsPerSection)

(* The class rows of one grade level, before class_id is assigned *)
ClassesOfGrade(SR, grade_level) ==
    LET student_count ==
            Cardinality({s \in DOMAIN SR.active :
                            SR.active[s].grade_level_id = grade_level})
        subjects == SubjectsOfGrade(grade_level)
        section == [p \in 1..Len(subjects) |->
                      [name |-> subjects[p], grade_level_id |-> grade_level,
                       period_id |-> p]]
    IN Concat([i \in 1..SectionsNeeded(student_count) |-> section])

(* _generate_classes; teacher, classroom and term of a row are random draws *)
(* no other table depends on and are left out                               *)
GenerateClasses(SR) ==
    LET grades == GradeOrder(ActiveList(SR), {})
        rows == Concat([i \in 1..Len(grades) |-> ClassesOfGrade(SR, grades[i])])
    IN [i \in 1..Len(rows) |->
          [class_id |-> i, name |-> rows[i].name,
           grade_level_id |-> rows[i].grade_level_id,
           period_id |-> rows[i].period_id]]

(* grade_students taken from every student the registry ever held *)
EnrolledPopulationAll(SR, grade_level) ==
    SortedSeq(DOMAIN SR.active \cup SR.graduated \cup SR.transferred)

(* grade_students of _generate_enrollments, as ids *)
EnrolledPopulation(SR, grade_level) ==
    LET students == ActiveList(SR)
        picked == SelectSeq(students, LAMBDA s : s.grade_level_id = grade_level)
    IN [i \in 1..Len(picked) |-> picked[i].student_id]

(* Enrollments into the first class of the table only *)
GenerateEnrollmentsFirstClass(SR, classes) ==
    LET rows == Concat([c \in 1..Min(1, Len(classes)) |->
                   LET grade_students ==
                           EnrolledPopulation(SR, classes[c].grade_level_id)
                   IN [i \in 1..Len(grade_students) |->
                         [student_id |-> grade_students[i],
                          class_id |-> classes[c].class_id]]])
    IN [i \in 1..Len(rows) |->
          [enrollment_id |-> i, student_id |-> rows[i].student_id,
           class_id |-> rows[i].class_id]]

(* _generate_enrollments *)
GenerateEnrollments(SR, classes) ==
    LET rows == Concat([c \in 1..Len(classes) |->
                   LET grade_students ==
                           EnrolledPopulation(SR, classes[c].grade_level_id)
                   IN [i \in 1..Len(grade_students) |->
                         [student_id |-> grade_students[i],
                          class_id |-> classes[c].class_id]]])
    IN [i \in 1..Len(rows) |->
          [enrollment_id |-> i, student_id |-> rows[i].student_id,
           class_id |-> rows[i].class_id]]

(* _generate_assignments with assignments_per_class the count drawn; the *)
(* model draws one count for all classes of the year                      *)
GenerateAssignments(classes, assignments_per_class) ==
    LET rows == Concat([c \in 1..Len(classes) |->
                   [i \in 1..assignments_per_class |->
                      [class_id |-> classes[c].class_id]]])
    IN [i \in 1..Len(rows) |->
          [assignment_id |-> i, class_id |-> rows[i].class_id]]

(* _generate_grades; the score is left to _generate_realistic_grade *)
GenerateGrades(assignments, enrollments) ==
    LET rows == Concat([a \in 1..Len(assignments) |->
                   LET enrolled ==
                           SelectSeq(enrollments,
                               LAMBDA e : e.class_id = assignments[a].class_id)
                   IN [i \in 1..Len(enrolled) |->
                         [student_id |-> enrolled[i].student_id,
                          assignment_id |-> assignments[a].assignment_id]]])
    IN [i \in 1..Len(rows) |->
          [grade_id |-> i, student_id |-> rows[i].student_id,
           assignment_id |-> rows[i].assignment_id]]

(* _generate_attendance: one row per active student and school day *)
GenerateAttendance(SR, school_days) ==
    LET students == ActiveList(SR)
        rows == Concat([s \in 1..Len(students) |->
                   [d \in 1..Len(school_days) |->
                      [student_id |-> students[s].student_id,
                       date |-> school_days[d]]]])
    IN [i \in 1..Len(rows) |->
          [attendance_id |-> i, student_id |-> rows[i].student_id,
           date |-> rows[i].date]]

(* _generate_discipline_reports: the students sampled,                     *)
(* int(len(students) * 0.05) of them; a student's reports differ only in   *)
(* drawn texts and dates and are one row here                              *)
GenerateDisciplineReports(SR) ==
    {[i \in 1..Len(picked) |-> [report_id |-> i, student_id |-> picked[i]]] :
        picked \in Samples(DOMAIN SR.active,
                           (Cardinality(DOMAIN SR.active) * 5) \div 100)}

(* _generate_standardized_tests: the tests a grade level sits; the AP Exam *)
(* row a draw adds from grade level 11 on is left out                      *)
TestsOfGrade(grade_level) ==
    (IF grade_level >= 3
     THEN <<"State Math Assessment", "State Reading Assessment">> ELSE <<>>)
    \o (IF grade_level >= 10 THEN <<"PSAT", "SAT">> ELSE <<>>)

GenerateStandardizedTests(SR) ==
    LET students == ActiveList(SR)
        rows == Concat([s \in 1..Len(students) |->
                   LET tests == TestsOfGrade(students[s].grade_level_id)
                   IN [t \in 1..Len(tests) |->
                         [student_id |-> students[s].student_id,
                          test_name |-> tests[t]]]])
    IN [i \in 1..Len(rows) |->
          [test_id |-> i, student_id |-> rows[i].student_id,
           test_name |-> rows[i].test_name]]

(* _generate_student_grade_history: one row per active student *)
GenerateStudentGradeHistory(SR, y) ==
    LET students == ActiveList(SR)
    IN [i \in 1..Len(students) |->
          [history_id |-> i, student_id |-> students[i].student_id,
           school_year_id |-> y - 2014,
           grade_level_id |-> students[i].grade_level_id]]

(* _generate_payments: the guardian of the first relationship row of each  *)
(* family pays; the number of instalments is a draw and is left out        *)
RECURSIVE PayingGuardians(_, _)
PayingGuardians(rows, families_processed) ==
    IF rows = <<>> THEN <<>>
    ELSE IF Head(rows).family_id \in families_processed
    THEN PayingGuardians(Tail(rows), families_processed)
    ELSE <<Head(rows).guardian_id>>
            \o PayingGuardians(Tail(rows),
                               families_processed \cup {Head(rows).family_id})

GeneratePayments(G) ==
    LET payers == PayingGuardians(G.student_guardians, {})
    IN [i \in 1..Len(payers) |-> [payment_id |-> i, guardian_id |-> payers[i]]]

EmptySummary ==
    [year |-> 0, actual_enrollment |-> 0, graduated |-> 0,
     new_kindergarten |-> 0, transfers_in |-> 0, transfers_out |-> 0,
     retirements |-> 0, resignations |-> 0, new_hires |-> 0,
     total_active |-> 0]

EmptyYearData ==
    [students |-> <<>>, guardians |-> {}, student_guardians |-> <<>>,
     classes |-> <<>>, enrollments |-> <<>>, assignments |-> <<>>,
     grades |-> <<>>, attendance |-> <<>>, discipline_reports |-> <<>>,
     standardized_tests |-> <<>>, student_grade_history |-> <<>>,
     payments |-> <<>>, summary |-> EmptySummary]

----------------------------------------------------------------------------
(* Initial states *)

(* grade_level_id values of the baseline rows: the two highest levels, so  *)
(* that baseline students graduate within the years generated; lower      *)
(* levels enter through kindergarten enrolment and transfers              *)
BaselineGrades == {TerminalGrade - 1, TerminalGrade}

(* students.csv of the baseline year: student_id -> grade_level_id *)
Baselines ==
    UNION {[1..n -> BaselineGrades] : n \in 0..MaxBaseline}

(* A baseline with a student at every grade level, and up to MaxExtra more *)
ScenarioBaselines ==
    UNION {{[s \in 1..(TerminalGrade + e) |->
                IF s <= TerminalGrade THEN s ELSE extra[s - TerminalGrade]] :
              extra \in [1..e -> GradeLevels]} : e \in 0..MaxExtra}

BaselineTable(df) ==
    LET ids == SortedSeq(DOMAIN df)
    IN [i \in 1..Len(ids) |->
          [student_id |-> ids[i], grade_level_id |-> df[ids[i]]]]

(* Values of the history and return variables before any call *)
NoTransferCall ==
    [transfer_in_count |-> 0, transfer_out_count |-> 0, active_count |-> 0]

NoAnnualCall ==
    [target_teacher_count |-> 0, turnover_rate |-> 0, before |-> <<>>]

NoChanges == [retirements |-> <<>>, resignations |-> <<>>, new_hires |-> <<>>]

(* The tally before a sample is started *)
NoSample ==
    [points_possible |-> 0, stratum |-> 0, drawn |-> 0, high |-> 0,
     low |-> 0, total |-> 0]

(* current_date before _get_school_days is entered *)
NoDate == [year |-> 0, month |-> 0, day |-> 0]

(* The state after __init__ and load_baseline_data(df) *)
Loaded(df) ==
    LET SR == LoadBaselineStudents(df)
    IN /\ baseline = df
       /\ active_students = SR.active
       /\ graduated_students = SR.graduated
       /\ transferred_students = SR.transferred
       /\ student_id_counter = SR.counter
       /\ family_log = SR.log
       /\ guardians = {}
       /\ student_guardians = <<>>
       /\ guardian_id_counter = 1
       /\ transferred_guardians = {}
       /\ linked = {}
       /\ year = StartYear
       /\ pc = "advance"
       /\ kinder_count = 0
       /\ graduated = {}
       /\ new_k = <<>>
       /\ transfers_in = <<>>
       /\ transfers_out = <<>>
       /\ year_data = EmptyYearData
       /\ disk = [y \in {BaselineYear} |-> BaselineTable(df)]
       /\ summaries = <<>>
       /\ transfer_call = NoTransferCall
       /\ decade_dir = <<>>
       /\ combined_data = <<>>
       /\ current_date = NoDate
       /\ school_days_list = <<>>
       /\ attendance = <<>>
       /\ sample = NoSample

(* The teacher registry after load_baseline_teachers left it as TR *)
LoadedTeachers(TR) ==
    /\ active_teachers = TR.active
    /\ retired_teachers = TR.retired
    /\ former_teachers = TR.former
    /\ teacher_id_counter = TR.counter
    /\ teacher_changes = NoChanges
    /\ annual_call = NoAnnualCall

(* The curriculum after load_baseline_subjects(df), and the wall clock *)
LoadedSubjects(df) ==
    LET CM == LoadBaselineSubjects(df)
    IN /\ active_subjects = CM.active
       /\ subject_id_counter = CM.counter
       /\ now = ClockStart

(* teachers.csv of the baseline year: teacher_id -> department_id, with    *)
(* the departments drawn from the two ends of the catalog                  *)
TeacherTables ==
    UNION {[1..n -> {1, DepartmentCount}] : n \in 0..MaxTeachers}

(* subjects.csv of the baseline year *)
SubjectRow(name, dept) == [name |-> name, department_id |-> dept]

SubjectTables ==
    {<<>>,
     <<SubjectRow("Mathematics", 1)>>,
     <<SubjectRow("Mathematics", 1), SubjectRow("Old World History", 4)>>}

(* The staff and subjects the year loop starts from: a staff at the target *)
(* count in one department, with the same experience drawn for everyone;   *)
(* SpecTeachers and SpecCurriculum start from every table above            *)
StaffOfRun ==
    CHOOSE TR \in LoadBaselineTeachers([t \in 1..TargetTeacherCount |-> 1]) :
        \A t \in DOMAIN TR.active :
            TR.active[t].years_experience = MaxBaselineExperience

SubjectsOfRun ==
    <<SubjectRow("Mathematics", 1), SubjectRow("Old World History", 4)>>

Init ==
    /\ \E df \in Baselines : Loaded(df)
    /\ LoadedTeachers(StaffOfRun)
    /\ LoadedSubjects(SubjectsOfRun)

InitScenario ==
    /\ \E df \in ScenarioBaselines \cup Baselines : Loaded(df)
    /\ LoadedTeachers(StaffOfRun)
    /\ LoadedSubjects(SubjectsOfRun)

----------------------------------------------------------------------------
(* The registry operations as state changes *)

(* Students created since the baseline load *)
Created == student_id_counter - 1 - Cardinality(DOMAIN baseline)

SetStudentReg(SR) ==
    /\ active_students' = SR.active
    /\ graduated_students' = SR.graduated
    /\ transferred_students' = SR.transferred
    /\ student_id_counter' = SR.counter
    /\ family_log' = SR.log

SetGuardianReg(G) ==
    /\ guardians' = G.guardians
    /\ student_guardians' = G.student_guardians
    /\ guardian_id_counter' = G.counter
    /\ transferred_guardians' = G.transferred_guardians
    /\ linked' = linked \cup {<<G.student_guardians[i].student_id,
                                G.student_guardians[i].guardian_id>> :
                                 i \in 1..Len(G.student_guardians)}

DoAdvance ==
    LET SR == AdvanceGradeLevels(StudentReg)
    IN /\ SetStudentReg(SR)
       /\ graduated' = SR.graduated \ graduated_students
       /\ UNCHANGED <<new_k, transfers_in, transfers_out, transfer_call>>
       /\ UNCHANGED <<baseline, scriptVars, staffVars, guardianVars, kinder_count>>

DoEnroll(count) ==
    /\ Created + count <= MaxNewStudents
    /\ \E SR \in EnrollNewKindergarteners(StudentReg, count) :
          /\ SetStudentReg(SR)
          /\ new_k' = [i \in 1..count |-> student_id_counter + i - 1]
    /\ kinder_count' = count
    /\ UNCHANGED <<graduated, transfers_in, transfers_out, transfer_call>>
    /\ UNCHANGED <<baseline, scriptVars, staffVars, guardianVars>>

DoTransfers(transfer_in_count, transfer_out_count) ==
    /\ Created + transfer_in_count <= MaxNewStudents
    /\ \E st \in ProcessTransfers(StudentReg, GuardianReg,
                                  transfer_in_count, transfer_out_count) :
          /\ SetStudentReg(st.SR)
          /\ SetGuardianReg(st.GR)
          /\ transfers_in' = st.ins
          /\ transfers_out' = st.outs
    /\ UNCHANGED <<graduated, new_k, transfer_call>>
    /\ UNCHANGED <<baseline, scriptVars, staffVars, kinder_count>>

DoGenerateGuardians ==
    /\ \E G \in GenerateGuardiansForStudents(GuardianReg, ActiveList(StudentReg)) :
          SetGuardianReg(G)
    /\ UNCHANGED <<baseline, scriptVars, staffVars, studentVars, kinder_count, returnVars>>

SetTeacherReg(TR) ==
    /\ active_teachers' = TR.active
    /\ retired_teachers' = TR.retired
    /\ former_teachers' = TR.former
    /\ teacher_id_counter' = TR.counter

(* Highest teacher_id the model lets the registry mint *)
MaxTeacherId == MaxTeachers + MaxNewTeachers

DoAnnualChanges(target_teacher_count, turnover_rate) ==
    /\ \E st \in ProcessAnnualChanges(TeacherReg, target_teacher_count,
                                       turnover_rate) :
          /\ st.TR.counter - 1 <= MaxTeacherId
          /\ SetTeacherReg(st.TR)
          /\ teacher_changes' = [retirements |-> st.retirements,
                                 resignations |-> st.resignations,
                                 new_hires |-> st.new_hires]
    /\ annual_call' = [target_teacher_count |-> target_teacher_count,
                       turnover_rate |-> turnover_rate,
                       before |-> active_teachers]

DoEvolveCurriculum(y) ==
    LET CM == EvolveCurriculum(CurriculumMgr, y, now)
    IN /\ CM.counter - 1 <= MaxSubjectId
       /\ active_subjects' = CM.active
       /\ subject_id_counter' = CM.counter

----------------------------------------------------------------------------
(* generate_decade: one pass of generate_school_year per year, in the      *)
(* order of its code, then the year directory is written                   *)

StepAdvance ==
    /\ pc = "advance"
    /\ DoAdvance
    /\ pc' = "enroll"
    /\ UNCHANGED <<year, year_data, disk, summaries>>

StepEnroll ==
    /\ pc = "enroll"
    /\ \E count \in 0..MaxKinder : DoEnroll(count)
    /\ pc' = "transfers"
    /\ UNCHANGED <<year, year_data, disk, summaries>>

StepTransfers ==
    /\ pc = "transfers"
    /\ \E i \in 0..MaxTransferIn, o \in 0..MaxTransferOut : DoTransfers(i, o)
    /\ pc' = "teachers"
    /\ UNCHANGED <<year, year_data, disk, summaries>>

(* teacher_turnover_rate of the year configurations, in percent *)
TeacherTurnoverRate(y) == <<8, 7, 9, 6, 12, 8, 7, 6, 5, 5>>[y - BaselineYear]

StepTeachers ==
    /\ pc = "teachers"
    /\ DoAnnualChanges(TargetTeacherCount, TeacherTurnoverRate(year))
    /\ pc' = "curriculum"
    /\ UNCHANGED <<baseline, scriptVars, studentVars, guardianVars, kinder_count, returnVars,
                   curriculumVars, now, year, year_data, disk, summaries>>

StepCurriculum ==
    /\ pc = "curriculum"
    /\ DoEvolveCurriculum(year)
    /\ pc' = "people"
    /\ UNCHANGED <<baseline, scriptVars, studentVars, guardianVars, kinder_count, returnVars,
                   teacherVars, teacherReturnVars, now, year, year_data, disk,
                   summaries>>

(* students, guardians and student_guardians of year_data *)
StepPeople ==
    /\ pc = "people"
    /\ DoGenerateGuardians
    /\ year_data' = [EmptyYearData EXCEPT
                        !.students = CreateStudentsDataframe(StudentReg),
                        !.guardians = guardians',
                        !.student_guardians = student_guardians']
    /\ pc' = "academic"
    /\ UNCHANGED <<year, disk, summaries>>

(* A summary that counts the students transferred out as enrolled *)
CreateYearSummaryCountingLeavers ==
    [year |-> year,
     actual_enrollment |->
         Cardinality(DOMAIN active_students) + Len(transfers_out),
     graduated |-> Cardinality(graduated),
     new_kindergarten |-> Len(new_k),
     transfers_in |-> Len(transfers_in),
     transfers_out |-> Len(transfers_out),
     retirements |-> Len(teacher_changes.retirements),
     resignations |-> Len(teacher_changes.resignations),
     new_hires |-> Len(teacher_changes.new_hires),
     total_active |-> Cardinality(DOMAIN active_teachers)]

(* _create_year_summary *)
CreateYearSummary ==
    [year |-> year,
     actual_enrollment |-> Cardinality(DOMAIN active_students),
     graduated |-> Cardinality(graduated),
     new_kindergarten |-> Len(new_k),
     transfers_in |-> Len(transfers_in),
     transfers_out |-> Len(transfers_out),
     retirements |-> Len(teacher_changes.retirements),
     resignations |-> Len(teacher_changes.resignations),
     new_hires |-> Len(teacher_changes.new_hires),
     total_active |-> Cardinality(DOMAIN active_teachers)]

(* The academic and administrative tables of year_data and the summary *)
DeriveTables ==
    /\ \E n \in 1..MaxAssignments,
          discipline_reports \in GenerateDisciplineReports(StudentReg) :
          LET classes == GenerateClasses(StudentReg)
              enrollments == GenerateEnrollments(StudentReg, classes)
              assignments == GenerateAssignments(classes, n)
          IN year_data' = [year_data EXCEPT
                 !.classes = classes,
                 !.enrollments = enrollments,
                 !.assignments = assignments,
                 !.grades = GenerateGrades(assignments, enrollments),
                 !.attendance =
                     GenerateAttendance(StudentReg,
                                        [d \in 1..SchoolDayCount |-> d]),
                 !.discipline_reports = discipline_reports,
                 !.standardized_tests = GenerateStandardizedTests(StudentReg),
                 !.student_grade_history =
                     GenerateStudentGradeHistory(StudentReg, year),
                 !.payments = GeneratePayments(GuardianReg),
                 !.summary = CreateYearSummary]

(* A derivation whose payment pass consumes the relationship rows *)
StepAcademicConsuming ==
    /\ pc = "academic"
    /\ DeriveTables
    /\ pc' = "save"
    /\ student_guardians' = <<>>
    /\ UNCHANGED <<baseline, scriptVars, staffVars, studentVars, guardians,
                   guardian_id_counter, transferred_guardians, linked,
                   kinder_count, returnVars, year, disk, summaries>>

(* Steps 6 to 9 of generate_school_year *)
StepAcademic ==
    /\ pc = "academic"
    /\ DeriveTables
    /\ pc' = "save"
    /\ UNCHANGED <<baseline, scriptVars, staffVars, studentVars, guardianVars, kinder_count,
                   returnVars, year, disk, summaries>>

(* The body of the loop of generate_decade after generate_school_year *)
(* The tables of the year directory after the to_csv loop *)
WriteTables ==
    [y \in DOMAIN disk \cup {year} |->
        IF y = year THEN year_data.students ELSE disk[y]]

(* year_summary.json files after json.dump(summary) *)
WriteSummary ==
    [y \in DOMAIN summaries \cup {year} |->
        IF y = year THEN year_data.summary ELSE summaries[y]]

(* The locals of generate_school_year go out of scope *)
DropYearLocals ==
    /\ year_data' = EmptyYearData
    /\ graduated' = {}
    /\ new_k' = <<>>
    /\ transfers_in' = <<>>
    /\ transfers_out' = <<>>
    /\ transfer_call' = NoTransferCall
    /\ teacher_changes' = NoChanges
    /\ annual_call' = NoAnnualCall

(* A loop body that goes on to the next year without writing this one *)
SaveYearNothingWritten ==
    /\ pc = "save"
    /\ DropYearLocals
    /\ year' = year + 1
    /\ pc' = IF year + 1 > EndYear THEN "done" ELSE "advance"
    /\ UNCHANGED <<baseline, scriptVars, teacherVars, curriculumVars, now, studentVars,
                   guardianVars, kinder_count, disk, summaries>>

(* The body of the loop of generate_decade after generate_school_year *)
SaveYear ==
    /\ pc = "save"
    /\ disk' = WriteTables
    /\ summaries' = WriteSummary
    /\ DropYearLocals
    /\ year' = year + 1
    /\ pc' = IF year + 1 > EndYear THEN "done" ELSE "advance"
    /\ UNCHANGED <<baseline, scriptVars, teacherVars, curriculumVars, now, studentVars,
                   guardianVars, kinder_count>>

(* main catches the exception, returns 1 and the process exits: the       *)
(* registries and locals are gone, the files stay                          *)
ProcessExits ==
    /\ pc' = "failed"
    /\ active_students' = <<>>
    /\ graduated_students' = {}
    /\ transferred_students' = {}
    /\ student_id_counter' = 1
    /\ family_log' = <<>>
    /\ guardians' = {}
    /\ student_guardians' = <<>>
    /\ guardian_id_counter' = 1
    /\ transferred_guardians' = {}
    /\ linked' = {}
    /\ kinder_count' = 0
    /\ DropYearLocals
    /\ active_teachers' = <<>>
    /\ retired_teachers' = {}
    /\ former_teachers' = {}
    /\ teacher_id_counter' = 1
    /\ active_subjects' = <<>>
    /\ subject_id_counter' = 1
    /\ UNCHANGED <<baseline, scriptVars, now, year>>

(* An exception inside generate_school_year; the model lets it be raised   *)
(* where the year starts (the lookup of the year configuration) and in the *)
(* derivations                                                             *)
GenerationFails ==
    /\ pc \in {"advance", "academic"}
    /\ ProcessExits
    /\ UNCHANGED <<disk, summaries>>

(* A failure handler that also removes the directories written so far *)
PersistFailsCleaningUp ==
    /\ pc = "save"
    /\ ProcessExits
    /\ disk' = [y \in {BaselineYear} |-> disk[y]]
    /\ summaries' = <<>>

(* An exception while the year directory is written: before a table file   *)
(* is complete, or after the tables and before year_summary.json           *)
PersistFails ==
    /\ pc = "save"
    /\ ProcessExits
    /\ disk' \in {disk, WriteTables}
    /\ UNCHANGED summaries

Next ==
    \/ StepAdvance
    \/ StepEnroll
    \/ StepTransfers
    \/ StepTeachers
    \/ StepCurriculum
    \/ StepPeople
    \/ StepAcademic
    \/ SaveYear
    \/ GenerationFails
    \/ PersistFails

Spec == Init /\ [][Next]_vars

(* The registry operations called in any order; the caller drops what a  *)
(* call returns; year counts the calls of advance_grade_levels            *)

DropReturns ==
    /\ graduated' = {}
    /\ new_k' = <<>>
    /\ transfers_in' = <<>>
    /\ transfers_out' = <<>>
    /\ transfer_call' = NoTransferCall
    /\ kinder_count' = 0

CallAdvance ==
    /\ year <= EndYear
    /\ SetStudentReg(AdvanceGradeLevels(StudentReg))
    /\ year' = year + 1
    /\ DropReturns
    /\ UNCHANGED <<baseline, scriptVars, staffVars, guardianVars, pc, year_data, disk, summaries>>

CallEnroll ==
    /\ \E count \in 1..MaxKinder :
          /\ Created + count <= MaxNewStudents
          /\ \E SR \in EnrollNewKindergarteners(StudentReg, count) :
                SetStudentReg(SR)
    /\ DropReturns
    /\ UNCHANGED <<baseline, scriptVars, staffVars, guardianVars, year, pc, year_data, disk,
                   summaries>>

CallTransfers ==
    /\ \E i \in 0..MaxTransferIn, o \in 0..MaxTransferOut :
          /\ Created + i <= MaxNewStudents
          /\ \E st \in ProcessTransfers(StudentReg, GuardianReg, i, o) :
                /\ SetStudentReg(st.SR)
                /\ SetGuardianReg(st.GR)
    /\ DropReturns
    /\ UNCHANGED <<baseline, scriptVars, staffVars, year, pc, year_data, disk, summaries>>

NextCalls ==
    \/ CallAdvance
    \/ CallEnroll
    \/ CallTransfers

SpecCalls == Init /\ [][NextCalls]_vars

(* process_transfers called on any population, with counts up to one more *)
(* than the largest baseline; the caller keeps the arguments and what the  *)
(* call returns                                                            *)

TransferCounts == 0..(MaxBaseline + 1)

TransfersKept ==
    /\ \E i \in 0..MaxTransferIn, o \in TransferCounts :
          /\ Created + i <= MaxNewStudents
          /\ \E st \in ProcessTransfers(StudentReg, GuardianReg, i, o) :
                /\ SetStudentReg(st.SR)
                /\ SetGuardianReg(st.GR)
                /\ transfers_in' = st.ins
                /\ transfers_out' = st.outs
          /\ transfer_call' =
                 [transfer_in_count |-> i, transfer_out_count |-> o,
                  active_count |-> Cardinality(DOMAIN active_students)]
    /\ UNCHANGED <<baseline, scriptVars, staffVars, graduated, new_k, kinder_count, year, pc,
                   year_data, disk, summaries>>

NextTransfers == TransfersKept

SpecTransfers == Init /\ [][NextTransfers]_vars

(* process_annual_changes called on every baseline staff, with any target *)
(* and turnover; year counts the calls                                     *)

TargetCounts == 0..(MaxTeachers + 1)

(* turnover_rate in percent: a rate of the year configurations, a half and *)
(* the whole staff                                                         *)
TurnoverRates == {8, 50, 100}

InitTeachers ==
    /\ Loaded(<<>>)
    /\ \E df \in TeacherTables : \E TR \in LoadBaselineTeachers(df) :
          LoadedTeachers(TR)
    /\ LoadedSubjects(<<>>)

CallAnnualChanges ==
    /\ year <= EndYear
    /\ \E target \in TargetCounts, rate \in TurnoverRates :
          DoAnnualChanges(target, rate)
    /\ year' = year + 1
    /\ UNCHANGED <<baseline, scriptVars, studentVars, guardianVars, kinder_count, returnVars,
                   curriculumVars, now, pc, year_data, disk, summaries>>

NextTeachers == CallAnnualChanges

SpecTeachers == InitTeachers /\ [][NextTeachers]_vars

(* evolve_curriculum called with the years of the decade in any order,    *)
(* while the wall clock may pass a new year                                *)

EvolveYears == StartYear..(StartYear + 9)

InitCurriculum ==
    /\ Loaded(<<>>)
    /\ LoadedTeachers(StaffOfRun)
    /\ \E df \in SubjectTables : LoadedSubjects(df)

CallEvolveCurriculum ==
    /\ \E y \in EvolveYears : DoEvolveCurriculum(y)
    /\ UNCHANGED <<baseline, scriptVars, studentVars, guardianVars, kinder_count, returnVars,
                   teacherVars, teacherReturnVars, now, year, pc, year_data,
                   disk, summaries>>

Tick ==
    /\ now < ClockStart + MaxClockTicks
    /\ now' = now + 1
    /\ UNCHANGED <<baseline, scriptVars, studentVars, guardianVars, kinder_count, returnVars,
                   teacherVars, teacherReturnVars, curriculumVars, year, pc,
                   year_data, disk, summaries>>

NextCurriculum ==
    \/ CallEvolveCurriculum
    \/ Tick

SpecCurriculum == InitCurriculum /\ [][NextCurriculum]_vars

(* One year of advance_grade_levels then enroll_new_kindergarteners on a   *)
(* baseline with every grade level                                         *)

NextScenario ==
    \/ StepAdvance
    \/ StepEnroll

SpecScenario == InitScenario /\ [][NextScenario]_vars

----------------------------------------------------------------------------
(* The csv files of the year directories and the scripts run over them:    *)
(* luminosity_patch.py, grade_distribution_hotfix.py, decade_uploader.py.  *)
(* A percentage is modelled in percent, a draw of random.uniform by the    *)
(* two ends of its range.                                                  *)

(* round() of the fraction n / d, n >= 0: halves go to the even neighbour *)
Round(n, d) ==
    LET q == n \div d
        r == n % d
    IN IF 2 * r < d THEN q
       ELSE IF 2 * r > d THEN q + 1
       ELSE IF q % 2 = 0 THEN q ELSE q + 1

(* Draws of np.random.normal(mu, sigma): the mean and a draw four sigma *)
(* to either side                                                         *)
NormalDraws(mu, sigma) == {mu - 4 * sigma, mu, mu + 4 * sigma}

Clamp(lo, hi, x) == Max(lo, Min(hi, x))

(* The percentages the three branches of _generate_realistic_grade draw *)
RealisticPercentages ==
    {95, 100} \cup {0, 69} \cup {Clamp(70, 100, p) : p \in NormalDraws(87, 8)}

(* _generate_realistic_grade *)
GenerateRealisticGrade(points_possible) ==
    {Max(0, Min(points_possible, Round(points_possible * p, 100))) :
        p \in RealisticPercentages}

(* luminosity_patch.py, _generate_policy_compliant_score with grade_policy *)
(* median_percentage 87 and std_dev 8                                      *)
GeneratePolicyCompliantScore(points_possible) ==
    {Max(0, Min(points_possible, Round(points_possible * p, 100))) :
        p \in {95, 100} \cup {0, 69}
                \cup {Clamp(70, 100, p) : p \in NormalDraws(87, 8)}}

(* grade_distribution_hotfix.py, the score of generate_proper_grades *)
ProperScore(points_possible) ==
    {Max(0, Min(points_possible, Round(p * points_possible, 100))) :
        p \in {95, 100} \cup {0, 69}
                \cup {Clamp(70, 94, p) : p \in NormalDraws(85, 5)}}

(* points_mapping of _generate_assignments: the ends of each randint *)
PointsMapping(category) ==
    CASE category = "Homework" -> {10, 25}
      [] category = "Quiz" -> {25, 50}
      [] category = "Test" -> {75, 100}
      [] category = "Project" -> {50, 100}
      [] category = "Participation" -> {5, 15}

(* points_by_category of _fix_assignments_for_year: the ends of each *)
(* randint; a category outside the table keeps its points             *)
PointsByCategory(category, points_possible) ==
    CASE category = "Homework" -> {10, 25}
      [] category = "Quiz" -> {25, 50}
      [] category = "Test" -> {75, 100}
      [] category = "Project" -> {50, 100}
      [] category = "Participation" -> {5, 20}
      [] category = "Final" -> {100, 200}
      [] OTHER -> {points_possible}

(* random.randint(1, 4) of the term_id columns: the ends *)
TermDraws == {1, 4}

(* Bounds of the year directories *)
MaxDirYears == 2

(* The categories the model draws for an assignment: one whose range the  *)
(* patch keeps and the one whose range it changes                          *)
CategoryDraws == {"Test", "Participation"}

(* One element from each set of a sequence of sets, in every way *)
RECURSIVE Choices(_)
Choices(sets) ==
    IF sets = <<>> THEN {<<>>}
    ELSE {<<x>> \o rest : x \in Head(sets), rest \in Choices(Tail(sets))}

(* _create_terms_records *)
CreateTermsRecords(y) ==
    LET base_id == (y - BaselineYear) * 4 + 1
        labels == <<"Q1", "Q2", "Q3", "Q4">>
    IN [i \in 1..4 |->
          [term_id |-> base_id + i - 1, label |-> labels[i],
           school_year_id |-> y - 2014]]

(* classes.csv of a directory with one class: class_id starts at 1 every  *)
(* year and term_id is a draw                                              *)
ClassTables == {<<[class_id |-> 1, term_id |-> t]>> : t \in TermDraws}

(* enrollments of one student in the classes *)
EnrollOne(classes) ==
    [c \in 1..Len(classes) |->
       [enrollment_id |-> c, student_id |-> 1, class_id |-> classes[c].class_id]]

(* _generate_assignments: the columns drawn for each row *)
DrawAssignments(rows) ==
    LET draws == {[category |-> c, points_possible |-> p, term_id |-> t] :
                     c \in CategoryDraws, p \in UNION {PointsMapping(k) : k \in CategoryDraws},
                     t \in TermDraws}
        ofRow == {d \in draws : d.points_possible \in PointsMapping(d.category)}
    IN {[i \in 1..Len(rows) |->
           [assignment_id |-> rows[i].assignment_id,
            class_id |-> rows[i].class_id, category |-> c[i].category,
            points_possible |-> c[i].points_possible,
            term_id |-> c[i].term_id]] :
          c \in Choices([i \in 1..Len(rows) |-> ofRow])}

(* The row of assignments_df a grade row is scored against *)
AssignmentOf(assignments_df, assignment_id) ==
    LET at == {i \in 1..Len(assignments_df) :
                  assignments_df[i].assignment_id = assignment_id}
    IN assignments_df[Largest(at)]

(* _generate_grades: score and term_id of each row *)
DrawGrades(rows, assignments_df) ==
    {[i \in 1..Len(rows) |->
        [grade_id |-> rows[i].grade_id, student_id |-> rows[i].student_id,
         assignment_id |-> rows[i].assignment_id, score |-> c[i],
         term_id |-> AssignmentOf(assignments_df, rows[i].assignment_id).term_id]] :
       c \in Choices([i \in 1..Len(rows) |->
              GenerateRealisticGrade(
                  AssignmentOf(assignments_df,
                               rows[i].assignment_id).points_possible)])}

(* The academic files generate_school_year writes into the directory of y *)
YearDirectories(y) ==
    UNION {UNION {
        {[terms |-> CreateTermsRecords(y), classes |-> classes,
          assignments |-> assignments, grades |-> grades] :
            grades \in DrawGrades(
                          GenerateGrades(assignments, EnrollOne(classes)),
                          assignments)} :
        assignments \in UNION {DrawAssignments(GenerateAssignments(classes, n)) :
                                  n \in 1..MaxAssignments}} :
      classes \in ClassTables}

(* assignments_lookup.get(assignment_id, 100) *)
AssignmentLookup(assignments_df, assignment_id) ==
    IF \E i \in 1..Len(assignments_df) :
           assignments_df[i].assignment_id = assignment_id
    THEN AssignmentOf(assignments_df, assignment_id).points_possible
    ELSE 100

(* luminosity_patch.py, _fix_grades_for_year *)
FixGradesForYear(grades_df, assignments_df) ==
    {[i \in 1..Len(grades_df) |-> [grades_df[i] EXCEPT !.score = c[i]]] :
       c \in Choices([i \in 1..Len(grades_df) |->
              GeneratePolicyCompliantScore(
                  AssignmentLookup(assignments_df, grades_df[i].assignment_id))])}

(* luminosity_patch.py, _fix_assignments_for_year *)
FixAssignmentsForYear(assignments_df) ==
    {[i \in 1..Len(assignments_df) |->
        [assignments_df[i] EXCEPT !.points_possible = c[i]]] :
       c \in Choices([i \in 1..Len(assignments_df) |->
              PointsByCategory(assignments_df[i].category,
                               assignments_df[i].points_possible)])}

(* grade_distribution_hotfix.py, the new_grades of one year *)
ProperGrades(grades_df, assignments_df) ==
    {[i \in 1..Len(grades_df) |-> [grades_df[i] EXCEPT !.score = c[i]]] :
       c \in Choices([i \in 1..Len(grades_df) |->
              ProperScore(
                  AssignmentLookup(assignments_df, grades_df[i].assignment_id))])}

(* The year directories in the order of range(2016, 2026) *)
DirYears(dir) == SortedSeq(DOMAIN dir)

(* Every directory rewritten by one of the outcomes rewrite gives for it *)
RewriteEach(dir, outcomes) ==
    LET years == DirYears(dir)
    IN {[y \in DOMAIN dir |-> c[y - StartYear + 1]] :
          c \in Choices([i \in 1..Len(years) |-> outcomes[years[i]]])}

(* luminosity_patch.py, patch_grade_distributions with fix_assignments *)
PatchedDirectories(dir) ==
    RewriteEach(dir,
        [y \in DOMAIN dir |->
           {[dir[y] EXCEPT !.grades = g, !.assignments = a] :
               g \in FixGradesForYear(dir[y].grades, dir[y].assignments),
               a \in FixAssignmentsForYear(dir[y].assignments)}])

(* grade_distribution_hotfix.py, generate_proper_grades *)
ProperDirectories(dir) ==
    RewriteEach(dir,
        [y \in DOMAIN dir |->
           {[dir[y] EXCEPT !.grades = g] :
               g \in ProperGrades(dir[y].grades, dir[y].assignments)}])

(* decade_uploader.py: the tables combined here and the primary_keys *)
(* column _remove_duplicates uses for each                            *)
TableNames == {"terms", "classes", "assignments", "grades"}

PrimaryKey(table_name, row) ==
    CASE table_name = "terms" -> row.term_id
      [] table_name = "classes" -> row.class_id
      [] table_name = "assignments" -> row.assignment_id
      [] table_name = "grades" -> row.grade_id

(* _remove_duplicates: drop_duplicates(subset=key, keep="last") *)
RemoveDuplicates(table_name, df) ==
    LET kept == {i \in 1..Len(df) :
                    \A j \in (i + 1)..Len(df) :
                        PrimaryKey(table_name, df[j])
                            # PrimaryKey(table_name, df[i])}
        order == SortedSeq(kept)
    IN [k \in 1..Len(order) |-> df[order[k]]]

(* combine_table_data: the year folders sorted by name, concatenated *)
CombineTableData(dir, table_name) ==
    LET years == DirYears(dir)
    IN RemoveDuplicates(table_name,
           Concat([i \in 1..Len(years) |-> dir[years[i]][table_name]]))

(* Everything the generator run holds: untouched by the scripts *)
generatorVars == <<baseline, studentVars, guardianVars, kinder_count,
                   returnVars, staffVars, year, pc, year_data, disk, summaries>>

(* The start of the scripts: no registry loaded, no directory written *)
InitScripts ==
    /\ Loaded(<<>>)
    /\ LoadedTeachers(StaffOfRun)
    /\ LoadedSubjects(SubjectsOfRun)

(* generate_school_year and _save_year_data leave the next directory *)
WriteYearDirectory ==
    /\ combined_data = <<>>
    /\ Cardinality(DOMAIN decade_dir) < MaxDirYears
    /\ LET y == StartYear + Cardinality(DOMAIN decade_dir)
       IN \E d \in YearDirectories(y) : decade_dir' = decade_dir @@ (y :> d)
    /\ UNCHANGED <<generatorVars, combined_data, calendarVars, sample>>

(* luminosity_patch.py run over the directories there are *)
PatchGradeDistributions ==
    /\ combined_data = <<>>
    /\ decade_dir' \in PatchedDirectories(decade_dir)
    /\ UNCHANGED <<generatorVars, combined_data, calendarVars, sample>>

(* grade_distribution_hotfix.py run over the directories there are *)
GenerateProperGrades ==
    /\ combined_data = <<>>
    /\ decade_dir' \in ProperDirectories(decade_dir)
    /\ UNCHANGED <<generatorVars, combined_data, calendarVars, sample>>

(* decade_uploader.py, combine_all_data: the last step of the pipeline *)
CombineAllData ==
    /\ combined_data = <<>>
    /\ DOMAIN decade_dir # {}
    /\ combined_data' =
           [t \in {n \in TableNames :
                      Len(CombineTableData(decade_dir, n)) > 0} |->
              CombineTableData(decade_dir, t)]
    /\ UNCHANGED <<generatorVars, decade_dir, calendarVars, sample>>

NextDecadeDir ==
    \/ WriteYearDirectory
    \/ PatchGradeDistributions
    \/ GenerateProperGrades
    \/ CombineAllData

SpecDecadeDir == InitScripts /\ [][NextDecadeDir]_vars

----------------------------------------------------------------------------
(* _generate_attendance: the statuses of one student over a school-day    *)
(* list.  _get_school_days hands it 180 days in every year; the lists     *)
(* here are the shorter ones, a day being its position in the list.       *)

MaxSchoolDays == 34

(* int(total_days * 0.05) *)
AbsenceCount(total_days) == (total_days * 5) \div 100

(* 3% of the days that are left after the absences *)
TardyCountOfRemaining(total_days) ==
    ((total_days - AbsenceCount(total_days)) * 3) \div 100

(* int(total_days * 0.03) *)
TardyCount(total_days) == (total_days * 3) \div 100

Range(seq) == {seq[i] : i \in 1..Len(seq)}

(* The rows of one student: every draw of absence_days, tardy_days and of *)
(* the status of an absence                                                *)
StudentAttendance(student_id, school_days) ==
    LET total_days == Len(school_days)
        rows(absence_days, tardy_days, excused) ==
            [d \in 1..total_days |->
               [student_id |-> student_id, date |-> school_days[d],
                status |->
                    IF school_days[d] \in absence_days
                    THEN IF school_days[d] \in excused
                         THEN "Excused" ELSE "Absent"
                    ELSE IF school_days[d] \in tardy_days
                    THEN "Tardy" ELSE "Present"]]
    IN UNION {UNION {
          {rows(Range(a), Range(t), excused) : excused \in SUBSET Range(a)} :
             t \in Samples(Range(school_days) \ Range(a),
                           Min(TardyCount(total_days),
                               total_days - Len(a)))} :
          a \in Samples(Range(school_days),
                        Min(AbsenceCount(total_days), total_days))}

SchoolDayLists == {[i \in 1..T |-> i] : T \in 0..MaxSchoolDays}

(* _generate_attendance for one active student; the rows depend on no    *)
(* earlier call, so one call is made                                      *)
CallGenerateAttendance ==
    /\ attendance = <<>>
    /\ \E days \in SchoolDayLists :
          /\ school_days_list' = days
          /\ attendance' \in StudentAttendance(1, days)
    /\ UNCHANGED <<generatorVars, filesVars, current_date, sample>>

NextAttendance == CallGenerateAttendance

SpecAttendance == InitScripts /\ [][NextAttendance]_vars

----------------------------------------------------------------------------
(* _get_school_days and _is_holiday: datetime.date as a record of year,   *)
(* month and day; one step of the model is one pass of the while loop     *)

SchoolDaysPerYear == 180

Date(y, m, d) == [year |-> y, month |-> m, day |-> d]

IsLeap(y) == (y % 4 = 0 /\ y % 100 # 0) \/ y % 400 = 0

DaysInMonth(y, m) ==
    IF m = 2 THEN (IF IsLeap(y) THEN 29 ELSE 28)
    ELSE IF m \in {4, 6, 9, 11} THEN 30 ELSE 31

RECURSIVE DaysBeforeMonth(_, _)
DaysBeforeMonth(y, m) ==
    IF m = 1 THEN 0 ELSE DaysBeforeMonth(y, m - 1) + DaysInMonth(y, m - 1)

(* date.toordinal(): 1 is January 1 of year 1 *)
ToOrdinal(date) ==
    LET y == date.year - 1
    IN 365 * y + y \div 4 - y \div 100 + y \div 400
           + DaysBeforeMonth(date.year, date.month) + date.day

(* date.weekday(): 0 is Monday *)
Weekday(date) == (ToOrdinal(date) + 6) % 7

(* a <= b on dates *)
DateLE(a, b) == ToOrdinal(a) <= ToOrdinal(b)

(* date + timedelta(days=1) *)
NextDate(date) ==
    IF date.day < DaysInMonth(date.year, date.month)
    THEN Date(date.year, date.month, date.day + 1)
    ELSE IF date.month < 12 THEN Date(date.year, date.month + 1, 1)
    ELSE Date(date.year + 1, 1, 1)

Between(start, date, end) == DateLE(start, date) /\ DateLE(date, end)

(* _is_holiday: the three periods are built from check_date.year *)
IsHoliday(check_date) ==
    \/ Between(Date(check_date.year, 11, 25), check_date,
               Date(check_date.year, 11, 29))
    \/ Between(Date(check_date.year, 12, 23), check_date,
               Date(check_date.year + 1, 1, 3))
    \/ Between(Date(check_date.year + 1, 3, 15), check_date,
               Date(check_date.year + 1, 3, 22))

(* The years _get_school_days is called with *)
CalendarYears == StartYear..(StartYear + 9)

(* _get_school_days(year) up to the while loop *)
EnterGetSchoolDays ==
    /\ current_date = NoDate
    /\ \E y \in CalendarYears :
          /\ year' = y
          /\ current_date' = Date(y, 8, 26)
    /\ school_days_list' = <<>>
    /\ UNCHANGED <<baseline, studentVars, guardianVars, kinder_count,
                   returnVars, staffVars, pc, year_data, disk, summaries,
                   filesVars, attendance, sample>>

(* One pass of the while loop *)
SchoolDayStep ==
    /\ current_date # NoDate
    /\ DateLE(current_date, Date(year + 1, 6, 6))
    /\ Len(school_days_list) < SchoolDaysPerYear
    /\ school_days_list' =
           IF Weekday(current_date) < 5 /\ ~IsHoliday(current_date)
           THEN Append(school_days_list, current_date)
           ELSE school_days_list
    /\ current_date' = NextDate(current_date)
    /\ UNCHANGED <<generatorVars, filesVars, attendance, sample>>

NextCalendar ==
    \/ EnterGetSchoolDays
    \/ SchoolDayStep

SpecCalendar == InitScripts /\ [][NextCalendar]_vars

----------------------------------------------------------------------------
(* A sample of generated grades in which every branch and every interval  *)
(* of a draw holds the share of the sample its probability gives it.  A   *)
(* percentage is in hundredths of a percent; an interval is drawn at its  *)
(* middle.                                                                 *)

SampleSize == 10000

(* rand < 0.03: random.uniform(0.95, 1.0) in five intervals of 60 grades *)
PerfectStrata ==
    [k \in 1..5 |-> [percentage |-> 9500 + 100 * (k - 1) + 50, count |-> 60]]

(* rand < 0.08: random.uniform(0.0, 0.69) in twenty intervals of 25 *)
FailingStrata ==
    [k \in 1..20 |-> [percentage |-> 345 * (k - 1) + 172, count |-> 25]]

(* Of the 9200 draws left for np.random.normal, the number in each        *)
(* interval of half a standard deviation from -3.5 to 3.5, the outermost  *)
(* two holding the tails                                                   *)
NormalCounts ==
    <<12, 45, 153, 405, 845, 1378, 1762, 1762, 1378, 845, 405, 153, 45, 12>>

(* np.random.normal(0.87, 0.08) clamped to [0.70, 1.0] *)
NormalStrata ==
    [k \in 1..Len(NormalCounts) |->
       [percentage |-> Clamp(7000, 10000, 8700 + 400 * (k - 8) + 200),
        count |-> NormalCounts[k]]]

GradeStrata == PerfectStrata \o FailingStrata \o NormalStrata

(* The score _generate_realistic_grade returns for a percentage *)
ScoreAt(points_possible, percentage) ==
    Max(0, Min(points_possible, Round(points_possible * percentage, 10000)))

(* points_possible of the assignment the sample is graded on *)
SamplePoints == 5..100

(* The sample is started for an assignment *)
StartSample ==
    /\ sample = NoSample
    /\ \E p \in SamplePoints : sample' = [NoSample EXCEPT !.points_possible = p]
    /\ UNCHANGED <<generatorVars, filesVars, calendarVars>>

(* The grades of the next interval are generated and counted: those with *)
(* score / points_possible >= 0.95, those below 0.70, and the sum of the *)
(* percentages                                                            *)
DrawStratum ==
    /\ sample # NoSample
    /\ sample.stratum < Len(GradeStrata)
    /\ LET s == GradeStrata[sample.stratum + 1]
           p == sample.points_possible
           score == ScoreAt(p, s.percentage)
       IN sample' =
              [sample EXCEPT
                 !.stratum = @ + 1,
                 !.drawn = @ + s.count,
                 !.high = @ + (IF 100 * score >= 95 * p THEN s.count ELSE 0),
                 !.low = @ + (IF 100 * score < 70 * p THEN s.count ELSE 0),
                 !.total = @ + s.count * ((10000 * score) \div p)]
    /\ UNCHANGED <<generatorVars, filesVars, calendarVars>>

NextSample ==
    \/ StartSample
    \/ DrawStratum

SpecSample == InitScripts /\ [][NextSample]_vars

----------------------------------------------------------------------------
(* Properties *)

ActiveIds == DOMAIN active_students

(* Ids of every student loaded from the baseline or created since *)
EverRegistered ==
    DOMAIN baseline
        \cup (Cardinality(DOMAIN baseline) + 1)..(student_id_counter - 1)

(* The year's tables of people exist: lines 867-882 have run *)
PeopleDone == pc \in {"academic", "save"}

(* Guardian ids of the relationship rows naming a student *)
GuardianIdsOf(sid) ==
    {student_guardians[i].guardian_id :
        i \in {j \in 1..Len(student_guardians) :
                  student_guardians[j].student_id = sid}}

Column(table, field) == {table[i][field] : i \in 1..Len(table)}

HasEveryGrade(df) == \A g \in GradeLevels : \E s \in DOMAIN df : df[s] = g

BaselineAt(grade) == {s \in DOMAIN baseline : baseline[s] = grade}

(* C1: across two consecutive years, a student in both students tables    *)
(* is one grade level higher in the later one, and a student at grade 13   *)
(* in the earlier year is not in the later table and is in                 *)
(* graduated_students.                                                     *)
C1_GradeProgression ==
    PeopleDone =>
        LET prev == disk[year - 1]
            cur == year_data.students
        IN \A i \in 1..Len(prev) :
              /\ \A j \in 1..Len(cur) :
                    cur[j].student_id = prev[i].student_id
                        => cur[j].grade_level_id = prev[i].grade_level_id + 1
              /\ prev[i].grade_level_id = TerminalGrade
                    => /\ prev[i].student_id \notin Column(cur, "student_id")
                       /\ prev[i].student_id \notin ActiveIds
                       /\ prev[i].student_id \in graduated_students

(* Two generated years: one student continues, another was at grade 13 *)
C1_Witness ==
    /\ pc = "save"
    /\ year = StartYear + 1
    /\ \E i \in 1..Len(disk[year - 1]) :
          disk[year - 1][i].grade_level_id = TerminalGrade
    /\ \E i \in 1..Len(disk[year - 1]) :
          disk[year - 1][i].student_id \in Column(year_data.students, "student_id")

(* C2: after any sequence of advance_grade_levels,                         *)
(* enroll_new_kindergarteners and process_transfers calls every student id *)
(* loaded or created is in exactly one of active_students,                 *)
(* graduated_students and transferred_students.                            *)
C2_ExactlyOneCollection ==
    \A s \in EverRegistered :
        /\ s \in ActiveIds \cup graduated_students \cup transferred_students
        /\ ~(s \in ActiveIds /\ s \in graduated_students)
        /\ ~(s \in ActiveIds /\ s \in transferred_students)
        /\ ~(s \in graduated_students /\ s \in transferred_students)

C2_Witness ==
    /\ ActiveIds # {}
    /\ graduated_students # {}
    /\ transferred_students # {}
    /\ student_id_counter > Cardinality(DOMAIN baseline) + 1

(* C3: once generate_guardians_for_students has processed the active       *)
(* students of a year, two active students with the same family_id have    *)
(* the same set of guardian ids.                                           *)
C3_SiblingsShareGuardians ==
    PeopleDone =>
        \A s1, s2 \in ActiveIds :
            active_students[s1].family_id = active_students[s2].family_id
                => GuardianIdsOf(s1) = GuardianIdsOf(s2)

(* C4: after remove_student_guardians(s) has returned for the students     *)
(* process_transfers moved out, no relationship row names s.               *)
C4_RemovedStudentHasNoRows ==
    \A i \in 1..Len(transfers_out) : GuardianIdsOf(transfers_out[i]) = {}

(* C5: a guardian all of whose linked students have transferred out is not *)
(* in the active guardians and is in transferred_guardians.                *)
C5_OrphanGuardianArchived ==
    \A g \in 1..(guardian_id_counter - 1) :
        LET students == {l[1] : l \in {m \in linked : m[2] = g}}
        IN (students # {} /\ students \subseteq transferred_students)
              => (g \notin guardians /\ g \in transferred_guardians)

(* C6: every student_id in the year's enrollments, grades and attendance   *)
(* is in the year's students table, and every class_id in its enrollments  *)
(* and assignments is in its classes table.                                *)
C6_ReferentialClosure ==
    /\ Column(year_data.enrollments, "student_id")
          \subseteq Column(year_data.students, "student_id")
    /\ Column(year_data.grades, "student_id")
          \subseteq Column(year_data.students, "student_id")
    /\ Column(year_data.attendance, "student_id")
          \subseteq Column(year_data.students, "student_id")
    /\ Column(year_data.enrollments, "class_id")
          \subseteq Column(year_data.classes, "class_id")
    /\ Column(year_data.assignments, "class_id")
          \subseteq Column(year_data.classes, "class_id")

(* A second year's tables, with students gone from the registry before *)
C6_Witness ==
    /\ pc = "save"
    /\ year = StartYear + 1
    /\ year_data.enrollments # <<>>
    /\ year_data.grades # <<>>
    /\ year_data.attendance # <<>>
    /\ year_data.assignments # <<>>
    /\ graduated_students # {}
    /\ transferred_students # {}

(* C7: when the year's tables are derived, every active student has at     *)
(* least one student-guardian relationship row, in the registry and in the *)
(* year's student_guardians table.                                         *)
C7_ActiveStudentHasGuardian ==
    PeopleDone =>
        \A s \in ActiveIds :
            /\ GuardianIdsOf(s) # {}
            /\ s \in Column(year_data.student_guardians, "student_id")

(* A second year, after a transfer out, with siblings active *)
C7_Witness ==
    /\ pc = "academic"
    /\ year = StartYear + 1
    /\ transferred_students # {}
    /\ \E s1, s2 \in ActiveIds :
          s1 # s2 /\ active_students[s1].family_id = active_students[s2].family_id

(* C8: from a baseline with grade levels in 1..13, after any sequence of   *)
(* advance_grade_levels, enroll_new_kindergarteners and process_transfers  *)
(* calls every active student's grade_level_id is in 1..13.                *)
C8_GradeLevelInRange ==
    (\A s \in DOMAIN baseline : baseline[s] \in GradeLevels)
        => \A s \in ActiveIds : active_students[s].grade_level_id \in GradeLevels

(* Students at both ends of the range after calls of all three operations *)
C8_Witness ==
    /\ year > StartYear
    /\ transferred_students # {}
    /\ \E s \in ActiveIds : active_students[s].grade_level_id = TerminalGrade
    /\ \E s \in ActiveIds : active_students[s].grade_level_id = KindergartenGrade

(* C9 as stated: with a baseline that has students at every grade 1..13,   *)
(* after advance_grade_levels has run no active student has grade level 13.*)
C9_NoActiveAtTerminalGrade ==
    (HasEveryGrade(baseline) /\ pc = "enroll")
        => \A s \in ActiveIds :
              active_students[s].grade_level_id # TerminalGrade

(* C9 amended: with such a baseline, after advance_grade_levels has run no *)
(* student who was at grade 13 before the call is active (they are in      *)
(* graduated_students), and the active students at grade 13 are those who  *)
(* were at grade 12 before the call.                                       *)
C9_TerminalGradeGraduated ==
    (HasEveryGrade(baseline) /\ pc = "enroll")
        => /\ \A s \in BaselineAt(TerminalGrade) :
                 s \notin ActiveIds /\ s \in graduated_students
           /\ {s \in ActiveIds :
                  active_students[s].grade_level_id = TerminalGrade}
                 = BaselineAt(TerminalGrade - 1)

C9_Witness ==
    /\ HasEveryGrade(baseline)
    /\ pc = "enroll"
    /\ Cardinality(graduated_students) >= 2
    /\ \E s \in ActiveIds : active_students[s].grade_level_id = TerminalGrade

(* C10: advance_grade_levels(year) then enroll_new_kindergarteners(year,   *)
(* k) on a baseline of N students leaves N - (baseline students at grade   *)
(* 13) + k active students.                                                *)
C10_ActiveCountAfterYear ==
    pc = "transfers"
        => Cardinality(ActiveIds)
              = Cardinality(DOMAIN baseline)
                  - Cardinality(BaselineAt(TerminalGrade)) + kinder_count

C10_Witness ==
    /\ pc = "transfers"
    /\ kinder_count = 2
    /\ HasEveryGrade(baseline)
    /\ Cardinality(BaselineAt(TerminalGrade)) = 2

(* C11: a kindergartener enrolled through the branch that mints a          *)
(* family_id has a family_id that no student registered before it (active, *)
(* graduated or transferred) has.                                          *)
C11_MintedFamilyIsFresh ==
    \A i \in 1..Len(new_k) :
        ~family_log[new_k[i]].sibling
            => \A s \in DOMAIN family_log :
                  s < new_k[i]
                      => family_log[s].family_id # family_log[new_k[i]].family_id

(* Students process_transfers can move out of the registry as it is *)
TransferOutcomes(out_count) ==
    ProcessTransfers(StudentReg, GuardianReg, 0, out_count)

(* C12: for any transfer-out count and any active population, also an      *)
(* empty one or one smaller than the count, process_transfers completes    *)
(* and moves out exactly min(out_count, active_count) distinct students.   *)
C12_TransfersOutClamped ==
    /\ \A o \in TransferCounts : TransferOutcomes(o) # {}
    /\ Len(transfers_out)
          = Min(transfer_call.transfer_out_count, transfer_call.active_count)
    /\ \A i, j \in 1..Len(transfers_out) :
          i # j => transfers_out[i] # transfers_out[j]
    /\ \A i \in 1..Len(transfers_out) :
          /\ transfers_out[i] \in transferred_students
          /\ transfers_out[i] \notin ActiveIds

(* A call that asked for more students than were active, and one on an     *)
(* empty registry                                                          *)
C12_Witness ==
    /\ transfer_call.transfer_out_count > transfer_call.active_count
    /\ transfer_call.active_count > 0
    /\ Len(transfers_out) = transfer_call.active_count
    /\ ActiveIds = {}

registryVars == <<studentVars, guardianVars, teacherVars, curriculumVars>>

(* Every year from StartYear up to y has its tables and its summary on disk *)
WrittenThrough(y) ==
    \A n \in StartYear..y : n \in DOMAIN disk /\ n \in DOMAIN summaries

(* C13: generate_decade takes the years in increasing order, each once:    *)
(* the year never goes back and moves on by one only in the step that      *)
(* writes its tables and its year_summary.json; a year directory is        *)
(* written once, and no registry changes for a year before every earlier   *)
(* year is on disk.                                                        *)
C13_YearsInOrder ==
    [][/\ year' \in {year, year + 1}
       /\ year' = year + 1
             => /\ pc = "save"
                /\ year \notin DOMAIN disk /\ year \notin DOMAIN summaries
                /\ year \in DOMAIN disk' /\ year \in DOMAIN summaries'
       /\ (disk' # disk \/ summaries' # summaries)
             => /\ pc = "save"
                /\ DOMAIN disk' \subseteq DOMAIN disk \cup {year}
                /\ DOMAIN summaries' \subseteq DOMAIN summaries \cup {year}
       /\ (registryVars' # registryVars /\ pc' # "failed")
             => WrittenThrough(year - 1)]_vars

(* Both years generated: the registries changed for the second after the   *)
(* first was written                                                       *)
C13_Witness ==
    /\ pc = "done"
    /\ WrittenThrough(EndYear)
    /\ EndYear > StartYear
    /\ graduated_students # {}

(* C14: when generating or persisting a year fails, the directory of every *)
(* earlier year still holds its tables and its year_summary.json, as they  *)
(* were before the failure.                                                *)
C14_EarlierYearsSurviveFailure ==
    [][pc' = "failed"
          => \A n \in StartYear..(year - 1) :
                /\ n \in DOMAIN disk /\ n \in DOMAIN disk'
                /\ disk'[n] = disk[n]
                /\ n \in DOMAIN summaries /\ n \in DOMAIN summaries'
                /\ summaries'[n] = summaries[n]]_vars

(* The second year failed while its directory was written: its tables are  *)
(* there without a summary, and the first year is complete                 *)
C14_Witness ==
    /\ pc = "failed"
    /\ year = StartYear + 1
    /\ StartYear \in DOMAIN summaries
    /\ year \in DOMAIN disk
    /\ year \notin DOMAIN summaries

(* C15: deriving the year's classes, enrollments, assignments, grades,     *)
(* attendance, discipline reports, standardized tests, grade history and   *)
(* payments leaves the student, teacher, guardian and curriculum           *)
(* registries as they were.                                                *)
C15_DerivationKeepsRegistries ==
    [][(pc = "academic" /\ pc' = "save") => registryVars' = registryVars]_vars

(* Tables derived in a second year from registries that all hold entries *)
C15_Witness ==
    /\ pc = "save"
    /\ year = StartYear + 1
    /\ year_data.classes # <<>>
    /\ year_data.grades # <<>>
    /\ year_data.student_grade_history # <<>>
    /\ year_data.standardized_tests # <<>>
    /\ year_data.payments # <<>>
    /\ student_guardians # <<>>
    /\ DOMAIN active_teachers # {}
    /\ DOMAIN active_subjects # {}

(* process_annual_changes has been called *)
AnnualChangesDone == year > StartYear

(* The teachers the last call reports as retired or resigned *)
Departed == teacher_changes.retirements \o teacher_changes.resignations

(* Teachers active before the last call and still active *)
Stayers == DOMAIN annual_call.before \cap DOMAIN active_teachers

(* C16: after process_annual_changes the number of active teachers is at   *)
(* least target_teacher_count, and is target_teacher_count when the call   *)
(* hired at least one teacher.                                             *)
C16_HiresReachTarget ==
    AnnualChangesDone
        => /\ Cardinality(DOMAIN active_teachers)
                 >= annual_call.target_teacher_count
           /\ Len(teacher_changes.new_hires) >= 1
                 => Cardinality(DOMAIN active_teachers)
                       = annual_call.target_teacher_count

(* A call with a departure and two hires *)
C16_Witness ==
    /\ AnnualChangesDone
    /\ Len(Departed) >= 1
    /\ Len(teacher_changes.new_hires) = 2
    /\ annual_call.target_teacher_count = 2

(* C17: process_annual_changes removes int(active_count * turnover_rate)   *)
(* teachers from the active set, and each of them had at least the         *)
(* years_experience of every teacher who was active before and stays.      *)
C17_MostExperiencedLeave ==
    AnnualChangesDone
        => LET active_count == Cardinality(DOMAIN annual_call.before)
               product == active_count * annual_call.turnover_rate
           IN /\ 100 * Len(Departed) <= product
              /\ product < 100 * (Len(Departed) + 1)
              /\ {Departed[i].teacher_id : i \in 1..Len(Departed)}
                    = DOMAIN annual_call.before \ DOMAIN active_teachers
              /\ Cardinality(DOMAIN annual_call.before \ DOMAIN active_teachers)
                    = Len(Departed)
              /\ \A i \in 1..Len(Departed) : \A t \in Stayers :
                    Departed[i].years_experience
                        >= annual_call.before[t].years_experience

(* Half of a staff of two left: the one who stays had less experience *)
C17_Witness ==
    /\ AnnualChangesDone
    /\ Len(Departed) = 1
    /\ \E t \in Stayers :
          annual_call.before[t].years_experience
              < Departed[1].years_experience
    /\ \E t \in Stayers : t > MaxTeachers

(* C18: from a baseline whose teachers have department ids of the          *)
(* departments table, after any sequence of process_annual_changes calls   *)
(* every active teacher's department_id is an id of that table.            *)
C18_DepartmentsInCatalog ==
    \A t \in DOMAIN active_teachers :
        active_teachers[t].department_id \in Departments

(* Two calls, both with hires, one of them into the last department *)
C18_Witness ==
    /\ year = StartYear + 2
    /\ Len(teacher_changes.new_hires) >= 1
    /\ \E t \in DOMAIN active_teachers :
          /\ t > MaxTeachers
          /\ active_teachers[t].department_id = DepartmentCount
    /\ \E t \in DOMAIN active_teachers :
          /\ t > MaxTeachers
          /\ \A i \in 1..Len(teacher_changes.new_hires) :
                teacher_changes.new_hires[i] # t

SubjectNames == {active_subjects[i].name : i \in DOMAIN active_subjects}

(* C19: evolve_curriculum deletes no subject: every subject_id of the      *)
(* active catalog before a call is in the catalog after it.                *)
C19_SubjectsNeverDeleted ==
    [][DOMAIN active_subjects \subseteq DOMAIN active_subjects']_vars

(* The 2016 rename and additions of two years on a loaded catalog *)
C19_Witness ==
    /\ "World History" \in SubjectNames
    /\ "Old World History" \notin SubjectNames
    /\ "Mathematics" \in SubjectNames
    /\ "Digital Literacy" \in SubjectNames
    /\ "AP Calculus" \in SubjectNames

(* Values datetime.now().year can have during the run *)
ClockYears == ClockStart..(ClockStart + MaxClockTicks)

(* C20: the catalog evolve_curriculum(year) leaves, with every field of    *)
(* an added subject, depends only on the catalog before the call and on    *)
(* year: it is the same whatever the wall clock shows.                     *)
C20_EvolveIsDeterministic ==
    \A y \in EvolveYears : \A clock \in ClockYears :
        EvolveCurriculum(CurriculumMgr, y, clock).active
            = EvolveCurriculum(CurriculumMgr, y, now).active

(* The grade rows of every year directory, each with its assignment row *)
GradeRowsOnDisk ==
    UNION {{<<decade_dir[y].grades[i],
              AssignmentOf(decade_dir[y].assignments,
                           decade_dir[y].grades[i].assignment_id)>> :
               i \in 1..Len(decade_dir[y].grades)} : y \in DOMAIN decade_dir}

(* C21: every grade row written by the generator or rewritten by a patch  *)
(* script has 0 <= score <= points_possible of the row's assignment       *)
C21_ScoreWithinPoints ==
    \A pair \in GradeRowsOnDisk :
        /\ 0 <= pair[1].score
        /\ pair[1].score <= pair[2].points_possible

(* The days of the attendance rows that carry one of the statuses *)
DaysWith(statuses) ==
    {i \in 1..Len(attendance) : attendance[i].status \in statuses}

AttendanceDone == Len(attendance) > 0

InBreak(y, date) ==
    \/ Between(Date(y, 11, 25), date, Date(y, 11, 29))
    \/ Between(Date(y, 12, 23), date, Date(y + 1, 1, 3))
    \/ Between(Date(y + 1, 3, 15), date, Date(y + 1, 3, 22))

(* C23: the school-day list of the school year starting in year holds no  *)
(* Saturday or Sunday and no date of the Thanksgiving week, the winter    *)
(* break or the spring break of that school year                          *)
C23_NoWeekendOrBreakDay ==
    \A i \in 1..Len(school_days_list) :
        /\ Weekday(school_days_list[i]) < 5
        /\ ~InBreak(year, school_days_list[i])

(* The enrollment rows of the year that put student_id into class_id *)
EnrollmentRows(student_id, class_id) ==
    {i \in 1..Len(year_data.enrollments) :
        /\ year_data.enrollments[i].student_id = student_id
        /\ year_data.enrollments[i].class_id = class_id}

(* C24: in the tables of a year every active student has exactly one      *)
(* enrollment row for each class of the student's grade level and none    *)
(* for a class of another grade level                                      *)
C24_EnrolledInClassesOfGrade ==
    pc = "save" =>
        /\ Column(year_data.students, "student_id") = ActiveIds
        /\ \A s \in 1..Len(year_data.students) :
             \A c \in 1..Len(year_data.classes) :
                Cardinality(EnrollmentRows(year_data.students[s].student_id,
                                           year_data.classes[c].class_id))
                    = IF year_data.classes[c].grade_level_id
                            = year_data.students[s].grade_level_id
                      THEN 1 ELSE 0

(* A year with students of two grade levels, each with classes *)
C24_Witness ==
    /\ pc = "save"
    /\ \E s, t \in 1..Len(year_data.students) :
          /\ year_data.students[s].grade_level_id
                 # year_data.students[t].grade_level_id
          /\ \E c, e \in 1..Len(year_data.classes) :
                /\ year_data.classes[c].grade_level_id
                       = year_data.students[s].grade_level_id
                /\ year_data.classes[e].grade_level_id
                       = year_data.students[t].grade_level_id
    /\ year_data.enrollments # <<>>

(* C25: in a sample of 10,000 generated grades the share with             *)
(* score / points_possible >= 0.95 is between 1% and 6%, the share below  *)
(* 0.70 is at most 8%, and the mean percentage is between 80 and 92       *)
C25_GradeDistribution ==
    sample.drawn = SampleSize =>
        /\ SampleSize <= 100 * sample.high
        /\ 100 * sample.high <= 6 * SampleSize
        /\ 100 * sample.low <= 8 * SampleSize
        /\ 8000 * SampleSize <= sample.total
        /\ sample.total <= 9200 * SampleSize

(* C26: every row of the year's student_guardians table links a student   *)
(* of the year's students table to a guardian of the year's guardians     *)
(* table                                                                   *)
C26_RelationshipsOfActivePeople ==
    PeopleDone =>
        \A i \in 1..Len(year_data.student_guardians) :
            /\ year_data.student_guardians[i].student_id
                   \in Column(year_data.students, "student_id")
            /\ year_data.student_guardians[i].guardian_id
                   \in year_data.guardians

(* C27: after any number of yearly generate_guardians_for_students passes *)
(* the relationship table holds at most one row for a pair of student_id  *)
(* and guardian_id                                                         *)
C27_OneRowPerPair ==
    \A i, j \in 1..Len(student_guardians) :
        (/\ student_guardians[i].student_id = student_guardians[j].student_id
         /\ student_guardians[i].guardian_id = student_guardians[j].guardian_id)
            => i = j

(* The active enrollment reported for the year before y: the baseline     *)
(* students table for the first year generated                            *)
PreviousEnrollment(y) ==
    IF y = StartYear THEN Len(disk[BaselineYear])
    ELSE summaries[y - 1].actual_enrollment

(* The enrollment a summary accounts for from the year before *)
Accounted(y, summary) ==
    PreviousEnrollment(y) - summary.graduated + summary.new_kindergarten
        + summary.transfers_in - summary.transfers_out

(* C28: the active enrollment a year reports is that of the year before   *)
(* minus the graduated count plus the new kindergarten count plus         *)
(* transfers in minus transfers out, in every summary written and in the  *)
(* one of the year being generated                                         *)
C28_EnrollmentAccounted ==
    /\ \A y \in DOMAIN summaries :
          /\ y > StartYear => (y - 1) \in DOMAIN summaries
          /\ summaries[y].actual_enrollment = Accounted(y, summaries[y])
          /\ summaries[y].actual_enrollment = Len(disk[y])
    /\ pc = "save" =>
          year_data.summary.actual_enrollment = Accounted(year, year_data.summary)

(* A year after the first whose summary reports graduates, arrivals and   *)
(* transfers out                                                           *)
C28_Witness ==
    \E y \in DOMAIN summaries :
        /\ y > StartYear
        /\ summaries[y].graduated > 0
        /\ summaries[y].transfers_out > 0
        /\ summaries[y].new_kindergarten + summaries[y].transfers_in > 0

(* The term_id column of a table *)
TermIds(df) == {df[i].term_id : i \in 1..Len(df)}

(* C29: in every year directory, every term_id in classes, assignments    *)
(* and grades is the term_id of a row of that directory's terms table     *)
C29_TermIdsOfTheYear ==
    \A y \in DOMAIN decade_dir :
        TermIds(decade_dir[y].classes) \cup TermIds(decade_dir[y].assignments)
            \cup TermIds(decade_dir[y].grades)
                \subseteq TermIds(decade_dir[y].terms)

(* The rows of a table in all the year directories together *)
RowsOfAllYears(dir, table_name) ==
    LET years == DirYears(dir)
    IN Concat([i \in 1..Len(years) |-> dir[years[i]][table_name]])

(* C30: the combined classes, assignments and grades tables hold every    *)
(* row of every year directory: none is dropped as a duplicate of a row   *)
(* of another year                                                         *)
C30_CombiningKeepsEveryRow ==
    combined_data # <<>> =>
        \A t \in {"classes", "assignments", "grades"} :
            /\ t \in DOMAIN combined_data
            /\ Len(combined_data[t]) = Len(RowsOfAllYears(decade_dir, t))

====
